---- MODULE Spec2Model ----
(***************************************************************************)
(* Order composition of the Mr. Daebak front end: the zustand order flow   *)
(* store (src/src/stores/useOrderFlowStore.ts), the guided step components *)
(* that drive it (DinnerStep, StyleStep, CustomizeStep, CheckoutStep) and  *)
(* the conversational checkout of AIChatDrawer.                            *)
(*                                                                         *)
(* Conventions.  A JavaScript null is the string "null" for a serving      *)
(* style and the empty tuple for a product; a product resource is the      *)
(* tuple <<dinnerId, servingStyleId, quantity>> of the request that        *)
(* created it.  Arrays are sequences, so the code's index i is the         *)
(* sequence position i + 1.  The id of a DinnerInstance is written by      *)
(* generateId and never read, so instances carry no id here.               *)
(***************************************************************************)
EXTENDS Integers, Sequences, FiniteSets, Bags, TLC

VARIABLES
    currentStep,                \* OrderFlowState.currentStep
    selectedAddress,            \* OrderFlowState.selectedAddress
    selectedDinners,            \* OrderFlowState.selectedDinners
    globalAdditionalMenuItems,  \* OrderFlowState.globalAdditionalMenuItems
    globalMemo,                 \* OrderFlowState.globalMemo
    pending,                    \* bag of the createProduct requests of StyleStep in flight
    creatingProducts,           \* StyleStep's creatingProducts component state
    quantities,                 \* DinnerStep's quantities component state
    customizeMount,             \* CustomizeStep while isLoading: the selectedDinners of its mount
    crashed,                    \* a render of the step shown has thrown: nothing is mounted
    isProcessing,               \* CheckoutStep's isProcessing component state
    checkout,                   \* the handleCheckout call in progress and its request in flight
    currentOrder,               \* AIChatDrawer's currentOrder
    chatAddress,                \* AIChatDrawer's selectedAddress
    showConfirmModal,           \* AIChatDrawer's showConfirmModal
    isLoading,                  \* AIChatDrawer's isLoading
    chatCall,                   \* the remote call of AIChatDrawer in flight
    chatTotalPrice,             \* AIChatDrawer's totalPrice
    nextState,                  \* AIChatDrawer's nextState
    messages,                   \* AIChatDrawer's messages, each by its role
    isAIChatOpen,               \* useUIStore's isAIChatOpen
    isRecording,                \* AIChatDrawer's isRecording
    capture,                    \* the media stream of startRecording: "none", "recording",
                                \* or "stopping" while onstop sends the audio
    audioCall,                  \* the dialogue request of sendAudioMessage in flight
    orderTimer,                 \* the setTimeout of ORDER_COMPLETED is pending
    location,                   \* the route the browser shows
    isAuthenticated,            \* useAuthStore's isAuthenticated
    lastCall                    \* the call that produced this state and what it was applied to

checkoutVars == <<isProcessing, checkout>>
drawerVars == <<chatTotalPrice, nextState, messages, isAIChatOpen, isRecording, capture,
                audioCall, orderTimer>>
chatVars == <<currentOrder, chatAddress, showConfirmModal, isLoading, chatCall, drawerVars>>
appVars == <<location, isAuthenticated>>

vars == <<currentStep, selectedAddress, selectedDinners, globalAdditionalMenuItems,
          globalMemo, pending, creatingProducts, quantities, customizeMount, crashed,
          checkoutVars, chatVars, appVars, lastCall>>

(***************************************************************************)
(* Bounds and input sets                                                   *)
(***************************************************************************)
MaxQuantity == 2
MaxIndex == 1
MaxInstances == 2
MaxPending == 2

Dinners == {"valentine", "champagne"}
Styles == {"simple", "grand"}
NullStyle == "null"
NullProduct == <<>>
NullAddress == "null"
Undefined == "undefined"
Addresses == {"Seoul"}

IdPool == 1..(Cardinality(Dinners) + MaxPending)

STEP_ORDER == <<"intro", "address", "dinner", "style", "customize", "checkout">>

\* POST /products/createProduct: the product created for a request
ProductFor(dinnerId, servingStyleId, quantity) == <<dinnerId, servingStyleId, quantity>>

\* the products and customization lists handed to the store when it is called directly
ProductArgs == {ProductFor("valentine", "grand", 1)}
CustomizationArgs ==
    {<<>>, <<[menuItemId |-> "steak", defaultQuantity |-> 1, currentQuantity |-> 1]>>}

(***************************************************************************)
(* Helpers over arrays                                                     *)
(***************************************************************************)
Min(a, b) == IF a < b THEN a ELSE b
Max(a, b) == IF a > b THEN a ELSE b

\* Array.prototype.findIndex, as a sequence position; 0 when nothing matches
FindIndex(s, Test(_)) ==
    IF \E k \in 1..Len(s) : Test(s[k])
    THEN CHOOSE k \in 1..Len(s) : Test(s[k]) /\ \A j \in 1..(k - 1) : ~Test(s[j])
    ELSE 0

ItemIds(sd) == {sd[k].id : k \in 1..Len(sd)}

\* generateId: an id no selected dinner or request in flight carries
GenerateId(sd, reqs) ==
    LET used == ItemIds(sd) \cup {r.dinnerItemId : r \in BagToSet(reqs)}
    IN  CHOOSE i \in IdPool \ used : \A j \in IdPool \ used : i <= j

RECURSIVE TotalInstances(_)
TotalInstances(sd) ==
    IF sd = <<>> THEN 0 ELSE Len(Head(sd).instances) + TotalInstances(Tail(sd))

EmptyInstance == [style |-> NullStyle, product |-> NullProduct, menuCustomizations |-> <<>>]

(***************************************************************************)
(* Store operations, as functions of the selectedDinners list              *)
(***************************************************************************)
\* addDinner that adds to the quantity of a selected dinner but keeps its instances
addDinner_keepInstances(sd, dinner, quantity, newId) ==
    LET existingIndex == FindIndex(sd, LAMBDA item : item.dinner = dinner)
    IN  IF existingIndex >= 1
        THEN [sd EXCEPT ![existingIndex] = [@ EXCEPT !.quantity = @ + quantity]]
        ELSE Append(sd, [id |-> newId, dinner |-> dinner,
                         quantity |-> quantity, instances |-> <<>>])

addDinner(sd, dinner, quantity, newId) ==
    LET existingIndex == FindIndex(sd, LAMBDA item : item.dinner = dinner)
    IN  IF existingIndex >= 1
        THEN [sd EXCEPT ![existingIndex] =
                 [@ EXCEPT !.quantity = @ + quantity, !.instances = <<>>]]
        ELSE Append(sd, [id |-> newId, dinner |-> dinner,
                         quantity |-> quantity, instances |-> <<>>])

\* removeDinner with the filter inverted
removeDinner_inverted(sd, dinnerItemId) ==
    SelectSeq(sd, LAMBDA item : item.id = dinnerItemId)

removeDinner(sd, dinnerItemId) ==
    SelectSeq(sd, LAMBDA item : item.id # dinnerItemId)

\* updateDinnerQuantity that removes only below zero
updateDinnerQuantity_strict(sd, dinnerItemId, quantity) ==
    IF quantity < 0
    THEN removeDinner(sd, dinnerItemId)
    ELSE [k \in 1..Len(sd) |->
             IF sd[k].id = dinnerItemId
             THEN [sd[k] EXCEPT !.quantity = quantity, !.instances = <<>>]
             ELSE sd[k]]

updateDinnerQuantity(sd, dinnerItemId, quantity) ==
    IF quantity <= 0
    THEN removeDinner(sd, dinnerItemId)
    ELSE [k \in 1..Len(sd) |->
             IF sd[k].id = dinnerItemId
             THEN [sd[k] EXCEPT !.quantity = quantity, !.instances = <<>>]
             ELSE sd[k]]

\* the growth with the last existing instance overwritten by a placeholder
GrowInstances_offByOne(instances, instanceIndex) ==
    [k \in 1..Max(Len(instances), instanceIndex + 1) |->
        IF k < Len(instances) \/ instanceIndex + 1 <= Len(instances)
        THEN instances[k] ELSE EmptyInstance]

\* the while loop of setInstanceStyle: push placeholders until instanceIndex exists
GrowInstances(instances, instanceIndex) ==
    [k \in 1..Max(Len(instances), instanceIndex + 1) |->
        IF k <= Len(instances) THEN instances[k] ELSE EmptyInstance]

\* setInstanceStyle that leaves the product and the customizations in place
setInstanceStyle_keepProduct(sd, dinnerItemId, instanceIndex, style) ==
    [k \in 1..Len(sd) |->
        IF sd[k].id = dinnerItemId
        THEN [sd[k] EXCEPT !.instances =
                 [GrowInstances(@, instanceIndex) EXCEPT ![instanceIndex + 1].style = style]]
        ELSE sd[k]]

setInstanceStyle(sd, dinnerItemId, instanceIndex, style) ==
    [k \in 1..Len(sd) |->
        IF sd[k].id = dinnerItemId
        THEN [sd[k] EXCEPT !.instances =
                 [GrowInstances(@, instanceIndex) EXCEPT ![instanceIndex + 1] =
                     [@ EXCEPT !.style = style,
                               !.product = NullProduct,
                               !.menuCustomizations = <<>>]]]
        ELSE sd[k]]

\* a setInstanceProduct that appends an instance when there is none at the index
setInstanceProduct_create(sd, dinnerItemId, instanceIndex, product) ==
    [k \in 1..Len(sd) |->
        IF sd[k].id # dinnerItemId THEN sd[k]
        ELSE IF instanceIndex + 1 <= Len(sd[k].instances)
        THEN [sd[k] EXCEPT !.instances[instanceIndex + 1].product = product]
        ELSE [sd[k] EXCEPT !.instances =
                 Append(@, [style |-> NullStyle, product |-> product,
                            menuCustomizations |-> <<>>])]]

setInstanceProduct(sd, dinnerItemId, instanceIndex, product) ==
    [k \in 1..Len(sd) |->
        IF sd[k].id = dinnerItemId /\ instanceIndex + 1 <= Len(sd[k].instances)
        THEN [sd[k] EXCEPT !.instances[instanceIndex + 1].product = product]
        ELSE sd[k]]

setInstanceMenuCustomizations(sd, dinnerItemId, instanceIndex, customizations) ==
    [k \in 1..Len(sd) |->
        IF sd[k].id = dinnerItemId /\ instanceIndex + 1 <= Len(sd[k].instances)
        THEN [sd[k] EXCEPT !.instances[instanceIndex + 1].menuCustomizations = customizations]
        ELSE sd[k]]

updateInstanceMenuItemQuantity(sd, dinnerItemId, instanceIndex, menuItemId, quantity) ==
    [k \in 1..Len(sd) |->
        IF sd[k].id = dinnerItemId /\ instanceIndex + 1 <= Len(sd[k].instances)
        THEN [sd[k] EXCEPT !.instances[instanceIndex + 1].menuCustomizations =
                 [c \in 1..Len(@) |->
                     IF @[c].menuItemId = menuItemId
                     THEN [@[c] EXCEPT !.currentQuantity = Max(0, quantity)]
                     ELSE @[c]]]
        ELSE sd[k]]

(***************************************************************************)
(* Initial state: the store as created, no component mounted yet           *)
(***************************************************************************)
\* no handleCheckout call in progress
NoCheckout ==
    [pc |-> "idle", selectedDinners |-> <<>>, cartItems |-> <<>>, additional |-> <<>>,
     additionalMenuProductIds |-> <<>>, request |-> <<>>]

\* the routes of App: the guided flow, the login page, the order history, my page
OrderPage == "/"
LoginPage == "/login"
OrdersPage == "/orders"
MyPage == "/mypage"

\* no remote call of AIChatDrawer in flight
NoChatCall ==
    [op |-> "none", items |-> <<>>, index |-> 0, created |-> <<>>, request |-> <<>>]

Init ==
    /\ currentStep = "intro"
    /\ selectedAddress = ""
    /\ selectedDinners = <<>>
    /\ globalAdditionalMenuItems = <<>>
    /\ globalMemo = ""
    /\ pending = EmptyBag
    /\ creatingProducts = {}
    /\ quantities = [d \in Dinners |-> 0]
    /\ customizeMount = <<>>
    /\ crashed = FALSE
    /\ isProcessing = FALSE
    /\ checkout = NoCheckout
    /\ currentOrder = <<>>
    /\ chatAddress = NullAddress
    /\ showConfirmModal = FALSE
    /\ isLoading = FALSE
    /\ chatCall = NoChatCall
    /\ chatTotalPrice = 0
    /\ nextState = Undefined
    /\ messages = <<>>
    /\ isAIChatOpen = FALSE
    /\ isRecording = FALSE
    /\ capture = "none"
    /\ audioCall = FALSE
    /\ orderTimer = FALSE
    /\ location = OrderPage
    /\ isAuthenticated = TRUE
    /\ lastCall = <<"create">>

\* the document is loaded anew at path (window.location.href = path, or
\* window.location.reload()): the stores and every component start as created,
\* requests in flight and timers are gone, the media stream is released; the
\* authentication is what localStorage holds
PageLoad(path, authenticated) ==
    /\ currentStep' = "intro"
    /\ selectedAddress' = ""
    /\ selectedDinners' = <<>>
    /\ globalAdditionalMenuItems' = <<>>
    /\ globalMemo' = ""
    /\ pending' = EmptyBag
    /\ creatingProducts' = {}
    /\ quantities' = [d \in Dinners |-> 0]
    /\ customizeMount' = <<>>
    /\ crashed' = FALSE
    /\ isProcessing' = FALSE
    /\ checkout' = NoCheckout
    /\ currentOrder' = <<>>
    /\ chatAddress' = NullAddress
    /\ showConfirmModal' = FALSE
    /\ isLoading' = FALSE
    /\ chatCall' = NoChatCall
    /\ chatTotalPrice' = 0
    /\ nextState' = Undefined
    /\ messages' = <<>>
    /\ isAIChatOpen' = FALSE
    /\ isRecording' = FALSE
    /\ capture' = "none"
    /\ audioCall' = FALSE
    /\ orderTimer' = FALSE
    /\ location' = path
    /\ isAuthenticated' = authenticated

(***************************************************************************)
(* What lastCall records of a call: its name, its arguments and a digest   *)
(* of what it was applied to.  For the dinner operations the digest is the *)
(* <<quantity, number of instances>> of the entry the call names (empty    *)
(* when there is none); for the instance operations it is the instance at  *)
(* the index the call names (empty when there is none).                    *)
(***************************************************************************)
ItemOf(sd, dinnerItemId) ==
    LET k == FindIndex(sd, LAMBDA item : item.id = dinnerItemId)
    IN  IF k = 0 THEN <<>> ELSE <<sd[k]>>

ItemDigest(found) ==
    IF found = <<>> THEN <<>> ELSE <<found[1].quantity, Len(found[1].instances)>>

InstanceDigest(found, instanceIndex) ==
    IF found = <<>> \/ instanceIndex + 1 > Len(found[1].instances)
    THEN <<>>
    ELSE <<found[1].instances[instanceIndex + 1]>>

(***************************************************************************)
(* The store called directly, with any arguments                           *)
(***************************************************************************)
StoreRest == <<currentStep, selectedAddress, globalAdditionalMenuItems, globalMemo,
               pending, creatingProducts, quantities, customizeMount, crashed,
               checkoutVars, chatVars, appVars>>

\* an addDinner call that appends a new item whether the dinner is selected or not
AddDinnerCall_append(dinner, quantity) ==
    LET existingIndex == FindIndex(selectedDinners, LAMBDA item : item.dinner = dinner)
        found == IF existingIndex = 0 THEN <<>> ELSE <<selectedDinners[existingIndex]>>
    IN  /\ existingIndex >= 1 =>
               /\ selectedDinners[existingIndex].quantity + quantity <= MaxQuantity
               /\ selectedDinners[existingIndex].quantity + quantity >= 0 - 1
        /\ Len(selectedDinners) < Cardinality(IdPool)
        /\ selectedDinners' = Append(selectedDinners,
                                     [id |-> GenerateId(selectedDinners, pending),
                                      dinner |-> dinner, quantity |-> quantity,
                                      instances |-> <<>>])
        /\ lastCall' = <<"addDinner", dinner, quantity, ItemDigest(found)>>
        /\ UNCHANGED StoreRest

AddDinnerCall(dinner, quantity) ==
    LET existingIndex == FindIndex(selectedDinners, LAMBDA item : item.dinner = dinner)
        found == IF existingIndex = 0 THEN <<>> ELSE <<selectedDinners[existingIndex]>>
    IN  /\ existingIndex >= 1 =>
               /\ selectedDinners[existingIndex].quantity + quantity <= MaxQuantity
               /\ selectedDinners[existingIndex].quantity + quantity >= 0 - 1
        /\ selectedDinners' = addDinner(selectedDinners, dinner, quantity,
                                        GenerateId(selectedDinners, pending))
        /\ lastCall' = <<"addDinner", dinner, quantity, ItemDigest(found)>>
        /\ UNCHANGED StoreRest

RemoveDinnerCall(dinnerItemId) ==
    /\ selectedDinners' = removeDinner(selectedDinners, dinnerItemId)
    /\ lastCall' = <<"removeDinner", dinnerItemId,
                     ItemDigest(ItemOf(selectedDinners, dinnerItemId))>>
    /\ UNCHANGED StoreRest

UpdateDinnerQuantityCall(dinnerItemId, quantity) ==
    /\ selectedDinners' = updateDinnerQuantity(selectedDinners, dinnerItemId, quantity)
    /\ lastCall' = <<"updateDinnerQuantity", dinnerItemId, quantity,
                     ItemDigest(ItemOf(selectedDinners, dinnerItemId))>>
    /\ UNCHANGED StoreRest

SetInstanceStyleCall(dinnerItemId, instanceIndex, style) ==
    /\ selectedDinners' = setInstanceStyle(selectedDinners, dinnerItemId, instanceIndex, style)
    /\ TotalInstances(selectedDinners') <= MaxInstances
    /\ lastCall' = <<"setInstanceStyle", dinnerItemId, instanceIndex, style,
                     InstanceDigest(ItemOf(selectedDinners, dinnerItemId), instanceIndex)>>
    /\ UNCHANGED StoreRest

SetInstanceProductCall(dinnerItemId, instanceIndex, product) ==
    /\ selectedDinners' = setInstanceProduct(selectedDinners, dinnerItemId, instanceIndex, product)
    /\ lastCall' = <<"setInstanceProduct", dinnerItemId, instanceIndex, product,
                     InstanceDigest(ItemOf(selectedDinners, dinnerItemId), instanceIndex)>>
    /\ UNCHANGED StoreRest

SetInstanceMenuCustomizationsCall(dinnerItemId, instanceIndex, customizations) ==
    /\ selectedDinners' = setInstanceMenuCustomizations(selectedDinners, dinnerItemId,
                                                       instanceIndex, customizations)
    /\ lastCall' = <<"setInstanceMenuCustomizations", dinnerItemId, instanceIndex, customizations,
                     InstanceDigest(ItemOf(selectedDinners, dinnerItemId), instanceIndex)>>
    /\ UNCHANGED StoreRest

StoreIds == 1..Cardinality(Dinners)
QuantityArgs == (0 - 1)..MaxQuantity
IndexArgs == 0..MaxIndex

\* the dinner list edited through the store, styles assigned to its instances
NextDinner ==
    \/ \E d \in Dinners, q \in QuantityArgs : AddDinnerCall(d, q)
    \/ \E id \in StoreIds : RemoveDinnerCall(id)
    \/ \E id \in StoreIds, q \in QuantityArgs : UpdateDinnerQuantityCall(id, q)
    \/ \E id \in StoreIds, i \in IndexArgs : SetInstanceStyleCall(id, i, "grand")

SpecDinner == Init /\ [][NextDinner]_vars

\* the dinner list edited through the store, its instances left alone
NextMerge ==
    \/ \E d \in Dinners, q \in QuantityArgs : AddDinnerCall(d, q)
    \/ \E id \in StoreIds : RemoveDinnerCall(id)
    \/ \E id \in StoreIds, q \in QuantityArgs : UpdateDinnerQuantityCall(id, q)

SpecMerge == Init /\ [][NextMerge]_vars

\* the instances of one selected dinner edited through the store
NextInstance ==
    \/ AddDinnerCall("valentine", MaxQuantity)
    \/ \E id \in StoreIds, i \in IndexArgs, s \in Styles \cup {NullStyle} :
           SetInstanceStyleCall(id, i, s)
    \/ \E id \in StoreIds, i \in IndexArgs, p \in ProductArgs :
           SetInstanceProductCall(id, i, p)
    \/ \E id \in StoreIds, i \in IndexArgs, c \in CustomizationArgs :
           SetInstanceMenuCustomizationsCall(id, i, c)

SpecInstance == Init /\ [][NextInstance]_vars

UpdateInstanceMenuItemQuantityCall(dinnerItemId, instanceIndex, menuItemId, quantity) ==
    /\ selectedDinners' = updateInstanceMenuItemQuantity(selectedDinners, dinnerItemId,
                                                        instanceIndex, menuItemId, quantity)
    /\ lastCall' = <<"updateInstanceMenuItemQuantity", dinnerItemId, instanceIndex,
                     menuItemId, quantity>>
    /\ UNCHANGED StoreRest

\* customization lists a caller can hand to setInstanceMenuCustomizations
CustomizationLists ==
    {<<[menuItemId |-> "steak", defaultQuantity |-> 1, currentQuantity |-> q]>> :
        q \in QuantityArgs}

CustomizedItems == {"steak", "wine"}

\* the customizations of the instances edited through the store
NextCustomize ==
    \/ \E d \in Dinners : AddDinnerCall(d, 1)
    \/ \E id \in StoreIds : SetInstanceStyleCall(id, 0, "grand")
    \/ \E id \in StoreIds, i \in IndexArgs, c \in CustomizationLists :
           SetInstanceMenuCustomizationsCall(id, i, c)
    \/ \E id \in StoreIds, i \in IndexArgs, mi \in CustomizedItems, q \in QuantityArgs :
           UpdateInstanceMenuItemQuantityCall(id, i, mi, q)

SpecCustomize == Init /\ [][NextCustomize]_vars

(***************************************************************************)
(* Step navigation of the store                                            *)
(***************************************************************************)
StepIndex(step) == CHOOSE k \in 1..Len(STEP_ORDER) : STEP_ORDER[k] = step

\* a nextStep that wraps around at the last step
nextStep_wrap(step) ==
    IF StepIndex(step) < Len(STEP_ORDER) THEN STEP_ORDER[StepIndex(step) + 1]
    ELSE STEP_ORDER[1]

nextStep(step) ==
    IF StepIndex(step) < Len(STEP_ORDER) THEN STEP_ORDER[StepIndex(step) + 1] ELSE step

prevStep(step) ==
    IF StepIndex(step) > 1 THEN STEP_ORDER[StepIndex(step) - 1] ELSE step

(***************************************************************************)
(* The guided flow.  OrderFlowPage renders the component of currentStep;   *)
(* a step change unmounts the component shown, so the component state of   *)
(* DinnerStep (quantities) and of StyleStep (creatingProducts) starts      *)
(* empty at every mount, and a createProduct request still in flight      *)
(* belongs from then on to an unmounted StyleStep: its response is applied *)
(* to the store, its setCreatingProducts reaches no mounted component.     *)
(***************************************************************************)
NoQuantities == [d \in Dinners |-> 0]

Unmounted(reqs) == BagOfAll(LAMBDA r : [r EXCEPT !.live = FALSE], reqs)

\* CustomizeStep and CheckoutStep render instance.style.styleName for every
\* instance that has a product
RendersInstances(sd) ==
    \A k \in 1..Len(sd) : \A j \in 1..Len(sd[k].instances) :
        sd[k].instances[j].product # NullProduct => sd[k].instances[j].style # NullStyle

\* the render of the step shown throws; CustomizeStep shows a spinner while isLoading
RenderThrows(step, mount, sd) ==
    /\ \/ step = "checkout"
       \/ step = "customize" /\ mount = <<>>
    /\ ~ RendersInstances(sd)

\* OrderFlowPage.renderStep after the store's step has changed to step, with
\* sd the selectedDinners of the store by then
Navigate(step, sd) ==
    /\ ~ crashed
    /\ currentStep' = step
    /\ quantities' = NoQuantities
    /\ creatingProducts' = {}
    /\ pending' = Unmounted(pending)
    /\ customizeMount' = IF step = "customize" THEN <<sd>> ELSE <<>>
    /\ isProcessing' = FALSE
    /\ crashed' = RenderThrows(step, IF step = "customize" THEN <<sd>> ELSE <<>>, sd)

\* IntroStep: the start button calls nextStep
IntroNext ==
    /\ location = OrderPage
    /\ currentStep = "intro"
    /\ Navigate(nextStep(currentStep), selectedDinners)
    /\ lastCall' = <<"IntroStep.nextStep">>
    /\ UNCHANGED <<selectedAddress, selectedDinners, globalAdditionalMenuItems, globalMemo,
                   checkout, chatVars, appVars>>

\* the inputs of the address field that hold white space only
BlankInputs == {"", " "}

\* a trim that keeps the white space
Trim_identity(input) == input

\* String.prototype.trim, on inputs that are blank or carry no outer white space
Trim(input) == IF input \in BlankInputs THEN "" ELSE input

\* AddressStep.handleNext with a non-blank input: the address is saved when new,
\* then setAddress and nextStep
AddressNext(address) ==
    /\ location = OrderPage
    /\ currentStep = "address"
    /\ Trim(address) # ""
    /\ selectedAddress' = Trim(address)
    /\ Navigate(nextStep(currentStep), selectedDinners)
    /\ lastCall' = <<"AddressStep.handleNext", address>>
    /\ UNCHANGED <<selectedDinners, globalAdditionalMenuItems, globalMemo,
                   checkout, chatVars, appVars>>

\* the previous button of DinnerStep, StyleStep and CustomizeStep; CustomizeStep
\* renders it once loaded
PrevStep ==
    /\ location = OrderPage
    /\ \/ currentStep \in {"dinner", "style"}
       \/ currentStep = "customize" /\ customizeMount = <<>>
    /\ Navigate(prevStep(currentStep), selectedDinners)
    /\ lastCall' = <<"prevStep">>
    /\ UNCHANGED <<selectedAddress, selectedDinners, globalAdditionalMenuItems, globalMemo,
                   checkout, chatVars, appVars>>

\* DinnerStep.handleQuantityChange: the new selectedDinners
QuantityChangeDinners(sd, reqs, dinnerId, quantity) ==
    LET k == FindIndex(sd, LAMBDA item : item.dinner = dinnerId)
    IN  IF quantity <= 0
        THEN IF k # 0 THEN removeDinner(sd, sd[k].id) ELSE sd
        ELSE IF k # 0
             THEN updateDinnerQuantity(sd, sd[k].id, quantity)
             ELSE addDinner(sd, dinnerId, quantity, GenerateId(sd, reqs))

\* DinnerStep.handleQuantityChange: the new quantities
QuantityChangeLocal(qs, dinnerId, quantity) ==
    [qs EXCEPT ![dinnerId] = IF quantity <= 0 THEN 0 ELSE quantity]

\* DinnerStep.handleIncrement
DinnerIncrement(dinnerId) ==
    /\ location = OrderPage
    /\ currentStep = "dinner"
    /\ ~ crashed
    /\ quantities[dinnerId] + 1 <= MaxQuantity
    /\ selectedDinners' = QuantityChangeDinners(selectedDinners, pending, dinnerId,
                                                quantities[dinnerId] + 1)
    /\ quantities' = QuantityChangeLocal(quantities, dinnerId, quantities[dinnerId] + 1)
    /\ lastCall' = <<"DinnerStep.handleIncrement", dinnerId>>
    /\ UNCHANGED <<currentStep, selectedAddress, globalAdditionalMenuItems, globalMemo,
                   pending, creatingProducts, customizeMount, crashed, checkoutVars,
                   chatVars, appVars>>

\* DinnerStep.handleDecrement; its button is disabled at quantity 0
DinnerDecrement(dinnerId) ==
    /\ location = OrderPage
    /\ currentStep = "dinner"
    /\ ~ crashed
    /\ quantities[dinnerId] # 0
    /\ selectedDinners' = QuantityChangeDinners(selectedDinners, pending, dinnerId,
                                                Max(0, quantities[dinnerId] - 1))
    /\ quantities' = QuantityChangeLocal(quantities, dinnerId, Max(0, quantities[dinnerId] - 1))
    /\ lastCall' = <<"DinnerStep.handleDecrement", dinnerId>>
    /\ UNCHANGED <<currentStep, selectedAddress, globalAdditionalMenuItems, globalMemo,
                   pending, creatingProducts, customizeMount, crashed, checkoutVars,
                   chatVars, appVars>>

\* DinnerStep.handleNext
DinnerNext ==
    /\ location = OrderPage
    /\ currentStep = "dinner"
    /\ Len(selectedDinners) # 0
    /\ ~ \E k \in 1..Len(selectedDinners) : selectedDinners[k].quantity < 1
    /\ Navigate(nextStep(currentStep), selectedDinners)
    /\ lastCall' = <<"DinnerStep.handleNext">>
    /\ UNCHANGED <<selectedAddress, selectedDinners, globalAdditionalMenuItems, globalMemo,
                   checkout, chatVars, appVars>>

\* a filter that offers every style for every dinner
isStyleAvailable_every(dinnerName, styleName) == TRUE

\* StyleStep.isStyleAvailable
isStyleAvailable(dinnerName, styleName) ==
    dinnerName = "champagne" => styleName \in {"grand", "deluxe"}

\* StyleStep.handleStyleSelect up to its await: the style is set and the
\* createProduct request is sent
StyleSelect(dinnerItemId, instanceIndex, style, inFlight) ==
    /\ location = OrderPage
    /\ currentStep = "style"
    /\ ~ crashed
    /\ BagCardinality(pending) < inFlight
    /\ \E k \in 1..Len(selectedDinners) :
          /\ selectedDinners[k].id = dinnerItemId
          /\ instanceIndex < selectedDinners[k].quantity
          /\ isStyleAvailable(selectedDinners[k].dinner, style)
          /\ pending' = pending (+) SetToBag(
                 {[dinnerItemId |-> dinnerItemId, instanceIndex |-> instanceIndex,
                   dinnerId |-> selectedDinners[k].dinner, servingStyleId |-> style,
                   live |-> TRUE]})
    /\ <<dinnerItemId, instanceIndex>> \notin creatingProducts
    /\ selectedDinners' = setInstanceStyle(selectedDinners, dinnerItemId, instanceIndex, style)
    /\ creatingProducts' = creatingProducts \cup {<<dinnerItemId, instanceIndex>>}
    /\ lastCall' = <<"StyleStep.handleStyleSelect", dinnerItemId, instanceIndex, style>>
    /\ UNCHANGED <<currentStep, selectedAddress, globalAdditionalMenuItems, globalMemo,
                   quantities, customizeMount, crashed, checkoutVars, chatVars, appVars>>

\* the finally block of handleStyleSelect
DoneCreating(r) ==
    IF r.live THEN creatingProducts \ {<<r.dinnerItemId, r.instanceIndex>>}
    ELSE creatingProducts

\* a completion that writes the product to every instance of the dinner
MaterializeSuccess_everyInstance(r) ==
    /\ BagIn(r, pending)
    /\ selectedDinners' =
           [k \in 1..Len(selectedDinners) |->
               IF selectedDinners[k].id = r.dinnerItemId
               THEN [selectedDinners[k] EXCEPT !.instances =
                        [j \in 1..Len(@) |->
                            [@[j] EXCEPT !.product =
                                ProductFor(r.dinnerId, r.servingStyleId, 1)]]]
               ELSE selectedDinners[k]]
    /\ creatingProducts' = DoneCreating(r)
    /\ pending' = pending (-) SetToBag({r})
    /\ lastCall' = <<"StyleStep.createProduct.then", r.dinnerItemId, r.instanceIndex,
                     r.servingStyleId>>
    /\ crashed' = (crashed \/ RenderThrows(currentStep, customizeMount, selectedDinners'))
    /\ UNCHANGED <<currentStep, selectedAddress, globalAdditionalMenuItems, globalMemo,
                   quantities, customizeMount, checkoutVars, chatVars, appVars>>

\* handleStyleSelect resumed by the response of createProduct
MaterializeSuccess(r) ==
    /\ BagIn(r, pending)
    /\ selectedDinners' = setInstanceProduct(selectedDinners, r.dinnerItemId, r.instanceIndex,
                                             ProductFor(r.dinnerId, r.servingStyleId, 1))
    /\ creatingProducts' = DoneCreating(r)
    /\ pending' = pending (-) SetToBag({r})
    /\ lastCall' = <<"StyleStep.createProduct.then", r.dinnerItemId, r.instanceIndex,
                     r.servingStyleId>>
    /\ crashed' = (crashed \/ RenderThrows(currentStep, customizeMount, selectedDinners'))
    /\ UNCHANGED <<currentStep, selectedAddress, globalAdditionalMenuItems, globalMemo,
                   quantities, customizeMount, checkoutVars, chatVars, appVars>>

\* a catch block that leaves the selected style in place
RevertStyle_keep(style) == style

\* the style handed to setInstanceStyle by the catch block of handleStyleSelect
RevertStyle(style) == NullStyle

\* handleStyleSelect resumed by the failure of createProduct
MaterializeFailure(r) ==
    /\ BagIn(r, pending)
    /\ selectedDinners' = setInstanceStyle(selectedDinners, r.dinnerItemId, r.instanceIndex,
                                           RevertStyle(r.servingStyleId))
    /\ creatingProducts' = DoneCreating(r)
    /\ pending' = pending (-) SetToBag({r})
    /\ lastCall' = <<"StyleStep.createProduct.catch", r.dinnerItemId, r.instanceIndex,
                     r.servingStyleId>>
    /\ crashed' = (crashed \/ RenderThrows(currentStep, customizeMount, selectedDinners'))
    /\ UNCHANGED <<currentStep, selectedAddress, globalAdditionalMenuItems, globalMemo,
                   quantities, customizeMount, checkoutVars, chatVars, appVars>>

\* the dinner and the style the guided flow is driven with
FlowDinners == {"valentine"}
FlowStyles == {"grand"}

\* dinner selection and style selection, with createProduct answering at any time
NextStyle ==
    \/ IntroNext
    \/ \E a \in Addresses : AddressNext(a)
    \/ PrevStep
    \/ \E d \in FlowDinners : DinnerIncrement(d)
    \/ \E d \in FlowDinners : DinnerDecrement(d)
    \/ DinnerNext
    \/ \E id \in IdPool, i \in 0..(MaxQuantity - 1), s \in FlowStyles :
           StyleSelect(id, i, s, MaxPending)
    \/ \E r \in BagToSet(pending) : MaterializeSuccess(r)
    \/ \E r \in BagToSet(pending) : MaterializeFailure(r)

SpecStyle == Init /\ [][NextStyle]_vars

(***************************************************************************)
(* StyleStep's gate, CustomizeStep and CheckoutStep                        *)
(***************************************************************************)
\* a gate that does not compare instances.length with quantity
allStylesSelected_anyLength(sd) ==
    \A k \in 1..Len(sd) : \A j \in 1..Len(sd[k].instances) :
        /\ sd[k].instances[j].style # NullStyle
        /\ sd[k].instances[j].product # NullProduct

\* StyleStep.handleNext: allStylesSelected
allStylesSelected(sd) ==
    \A k \in 1..Len(sd) :
        /\ Len(sd[k].instances) = sd[k].quantity
        /\ \A j \in 1..Len(sd[k].instances) :
               /\ sd[k].instances[j].style # NullStyle
               /\ sd[k].instances[j].product # NullProduct

\* StyleStep.handleNext; its button is disabled while a creation is shown in progress
StyleNext ==
    /\ location = OrderPage
    /\ currentStep = "style"
    /\ creatingProducts = {}
    /\ allStylesSelected(selectedDinners)
    /\ selectedAddress # ""
    /\ Navigate(nextStep(currentStep), selectedDinners)
    /\ lastCall' = <<"StyleStep.handleNext">>
    /\ UNCHANGED <<selectedAddress, selectedDinners, globalAdditionalMenuItems, globalMemo,
                   checkout, chatVars, appVars>>

\* GET /dinners/{id}/default-menu-items as customizations at their default quantity
DefaultCustomizations ==
    <<[menuItemId |-> "steak", defaultQuantity |-> 1, currentQuantity |-> 1]>>

\* the instances fetchMenuItems initializes: those of the selectedDinners of the
\* mount that have a product and no customization yet, as <<id, index>>
CustomizationTargets(snapshot) ==
    UNION {{<<snapshot[k].id, j - 1>> :
               j \in {i \in 1..Len(snapshot[k].instances) :
                         /\ snapshot[k].instances[i].menuCustomizations = <<>>
                         /\ snapshot[k].instances[i].product # NullProduct}} :
           k \in 1..Len(snapshot)}

RECURSIVE InitCustomizations(_, _)
InitCustomizations(sd, targets) ==
    IF targets = {} THEN sd
    ELSE LET t == CHOOSE x \in targets : TRUE
         IN  InitCustomizations(
                 setInstanceMenuCustomizations(sd, t[1], t[2], DefaultCustomizations),
                 targets \ {t})

\* CustomizeStep.fetchMenuItems once the default menu items have arrived
CustomizeLoaded ==
    /\ currentStep = "customize"
    /\ customizeMount # <<>>
    /\ Len(customizeMount[1]) > 0
    /\ selectedDinners' = InitCustomizations(selectedDinners,
                                             CustomizationTargets(customizeMount[1]))
    /\ customizeMount' = <<>>
    /\ crashed' = (crashed \/ RenderThrows(currentStep, <<>>, selectedDinners'))
    /\ lastCall' = <<"CustomizeStep.fetchMenuItems">>
    /\ UNCHANGED <<currentStep, selectedAddress, globalAdditionalMenuItems, globalMemo,
                   pending, creatingProducts, quantities, checkoutVars, chatVars, appVars>>

\* an add that counts a repeated add as one more piece
addGlobalAdditionalMenuItem_increment(items, menuItemId) ==
    IF \E k \in 1..Len(items) : items[k].menuItemId = menuItemId
    THEN [k \in 1..Len(items) |->
             IF items[k].menuItemId = menuItemId
             THEN [items[k] EXCEPT !.quantity = @ + 1] ELSE items[k]]
    ELSE Append(items, [menuItemId |-> menuItemId, quantity |-> 1])

\* addGlobalAdditionalMenuItem of the store
addGlobalAdditionalMenuItem(items, menuItemId) ==
    IF \E k \in 1..Len(items) : items[k].menuItemId = menuItemId
    THEN items
    ELSE Append(items, [menuItemId |-> menuItemId, quantity |-> 1])

\* CustomizeStep.handleAddGlobalMenuItem
CustomizeAddGlobal(menuItemId) ==
    /\ location = OrderPage
    /\ currentStep = "customize"
    /\ customizeMount = <<>>
    /\ ~ crashed
    /\ globalAdditionalMenuItems' = addGlobalAdditionalMenuItem(globalAdditionalMenuItems,
                                                                menuItemId)
    /\ lastCall' = <<"CustomizeStep.handleAddGlobalMenuItem", menuItemId>>
    /\ UNCHANGED <<currentStep, selectedAddress, selectedDinners, globalMemo, pending,
                   creatingProducts, quantities, customizeMount, crashed, checkoutVars,
                   chatVars, appVars>>

\* CustomizeStep.handleNext
CustomizeNext ==
    /\ location = OrderPage
    /\ currentStep = "customize"
    /\ customizeMount = <<>>
    /\ Navigate(nextStep(currentStep), selectedDinners)
    /\ lastCall' = <<"CustomizeStep.handleNext">>
    /\ UNCHANGED <<selectedAddress, selectedDinners, globalAdditionalMenuItems, globalMemo,
                   checkout, chatVars, appVars>>

\* the previous button of CheckoutStep, disabled while isProcessing
CheckoutPrev ==
    /\ location = OrderPage
    /\ currentStep = "checkout"
    /\ ~ isProcessing
    /\ Navigate(prevStep(currentStep), selectedDinners)
    /\ lastCall' = <<"prevStep">>
    /\ UNCHANGED <<selectedAddress, selectedDinners, globalAdditionalMenuItems, globalMemo,
                   checkout, chatVars, appVars>>

\* handleCheckout: allProductsCreated
allProductsCreated(sd) ==
    \A k \in 1..Len(sd) : \A j \in 1..Len(sd[k].instances) :
        sd[k].instances[j].product # NullProduct

\* cart lines that carry the quantity of the product instead of 1
InstanceLines_productQuantity(instances) ==
    LET withProduct == SelectSeq(instances, LAMBDA instance : instance.product # NullProduct)
    IN  [j \in 1..Len(withProduct) |->
            [productId |-> withProduct[j].product, quantity |-> withProduct[j].product[3] + 1]]

\* handleCheckout: one cart line of quantity 1 for every instance that has a product
InstanceLines(instances) ==
    LET withProduct == SelectSeq(instances, LAMBDA instance : instance.product # NullProduct)
    IN  [j \in 1..Len(withProduct) |-> [productId |-> withProduct[j].product, quantity |-> 1]]

RECURSIVE CartItems(_)
CartItems(sd) ==
    IF sd = <<>> THEN <<>> ELSE InstanceLines(Head(sd).instances) \o CartItems(Tail(sd))

\* globalMemo || undefined
MemoOrUndefined(memo) == IF memo = "" THEN Undefined ELSE memo

\* POST /products/createAdditionalMenuProduct: the request and the product created
AdditionalProductRequest(additionalItem, memo, address) ==
    [menuItemId |-> additionalItem.menuItemId, quantity |-> additionalItem.quantity,
     memo |-> MemoOrUndefined(memo), address |-> address]

AdditionalProductFor(request) == <<"additional", request.menuItemId, request.quantity>>

\* handleCheckout: allCartItems
AllCartItems(cartItems, productIds) ==
    cartItems \o [j \in 1..Len(productIds) |-> [productId |-> productIds[j], quantity |-> 1]]

\* POST /carts/createCart of handleCheckout
CreateCartRequest(allCartItems, address, memo) ==
    [items |-> allCartItems, deliveryAddress |-> address, deliveryMethod |-> "Delivery",
     memo |-> MemoOrUndefined(memo)]

\* handleCheckout from the end of the add-on loop: nothing to order, or createCart is sent
AfterAdditional(call, address, memo) ==
    LET allCartItems == AllCartItems(call.cartItems, call.additionalMenuProductIds)
    IN  IF allCartItems = <<>>
        THEN NoCheckout
        ELSE [call EXCEPT !.pc = "createCart", !.additional = <<>>,
                          !.request = CreateCartRequest(allCartItems, address, memo)]

\* an add-on loop that leaves after its first request
NextAdditional_skipRest(call, address, memo) ==
    IF call.additional = <<>> \/ call.additionalMenuProductIds # <<>>
    THEN AfterAdditional(call, address, memo)
    ELSE [call EXCEPT !.pc = "createAdditionalMenuProduct",
                      !.request = AdditionalProductRequest(Head(call.additional), memo, address)]

\* handleCheckout at the head of the add-on loop: the next add-on request is sent
NextAdditional(call, address, memo) ==
    IF call.additional = <<>>
    THEN AfterAdditional(call, address, memo)
    ELSE [call EXCEPT !.pc = "createAdditionalMenuProduct",
                      !.request = AdditionalProductRequest(Head(call.additional), memo, address)]

\* CheckoutStep.handleCheckout up to its first await.  hasCards: paymentMethods is
\* not empty; confirmed: the answer to window.confirm, which leaves for /mypage
HandleCheckout(hasCards, confirmed) ==
    /\ location = OrderPage
    /\ currentStep = "checkout"
    /\ ~ crashed
    /\ ~ isProcessing
    /\ IF ~ allProductsCreated(selectedDinners)
       THEN /\ lastCall' = <<"CheckoutStep.handleCheckout", "noProduct">>
            /\ UNCHANGED <<currentStep, pending, creatingProducts, quantities, customizeMount,
                           crashed, checkoutVars>>
       ELSE IF ~ hasCards
       THEN /\ lastCall' = <<"CheckoutStep.handleCheckout", "noPaymentMethod">>
            /\ IF confirmed
               THEN /\ Navigate(currentStep, selectedDinners)
                    /\ location' = MyPage
               ELSE UNCHANGED <<currentStep, pending, creatingProducts, quantities,
                                customizeMount, crashed, isProcessing, location>>
            /\ UNCHANGED <<checkout, isAuthenticated>>
       ELSE LET call == NextAdditional(
                            [NoCheckout EXCEPT !.selectedDinners = selectedDinners,
                                               !.cartItems = CartItems(selectedDinners),
                                               !.additional = globalAdditionalMenuItems],
                            selectedAddress, globalMemo)
            IN  /\ checkout' = call
                /\ isProcessing' = (call.pc # "idle")
                /\ lastCall' = <<"CheckoutStep.handleCheckout",
                                 IF call.pc = "idle" THEN "nothingToOrder" ELSE "submitted">>
                /\ UNCHANGED <<currentStep, pending, creatingProducts, quantities,
                               customizeMount, crashed>>
    /\ UNCHANGED <<selectedAddress, selectedDinners, globalAdditionalMenuItems, globalMemo,
                   chatVars, appVars>>

\* handleCheckout resumed by the response of createAdditionalMenuProduct
AdditionalProductSuccess ==
    /\ checkout.pc = "createAdditionalMenuProduct"
    /\ LET call == NextAdditional(
                       [checkout EXCEPT !.additional = Tail(checkout.additional),
                                        !.additionalMenuProductIds =
                                            Append(checkout.additionalMenuProductIds,
                                                   AdditionalProductFor(checkout.request))],
                       checkout.request.address,
                       IF checkout.request.memo = Undefined THEN "" ELSE checkout.request.memo)
       IN  /\ checkout' = call
           /\ isProcessing' = (call.pc # "idle")
    /\ lastCall' = <<"CheckoutStep.createAdditionalMenuProduct.then">>
    /\ UNCHANGED <<currentStep, selectedAddress, selectedDinners, globalAdditionalMenuItems,
                   globalMemo, pending, creatingProducts, quantities, customizeMount, crashed,
                   chatVars, appVars>>

\* handleCheckout resumed by the failure of createAdditionalMenuProduct: alert,
\* setIsProcessing(false), return.  lastCall records the add-on products made
\* before the failure, for which no request is sent.  A 401 has passed the
\* response interceptor of the client first, which removes the stored session and
\* assigns window.location.href = '/login'.
AdditionalProductFailure(status) ==
    /\ checkout.pc = "createAdditionalMenuProduct"
    /\ lastCall' = <<"CheckoutStep.createAdditionalMenuProduct.catch",
                     checkout.additionalMenuProductIds, status>>
    /\ IF status = 401
       THEN PageLoad(LoginPage, FALSE)
       ELSE /\ checkout' = NoCheckout
            /\ isProcessing' = FALSE
            /\ UNCHANGED <<currentStep, selectedAddress, selectedDinners,
                           globalAdditionalMenuItems, globalMemo, pending, creatingProducts,
                           quantities, customizeMount, crashed, chatVars, appVars>>

\* handleCheckout resumed by the response of createCart: the checkout call is sent
CreateCartSuccess ==
    /\ checkout.pc = "createCart"
    /\ checkout' = [checkout EXCEPT !.pc = "checkout"]
    /\ lastCall' = <<"CheckoutStep.createCart.then">>
    /\ UNCHANGED <<currentStep, selectedAddress, selectedDinners, globalAdditionalMenuItems,
                   globalMemo, pending, creatingProducts, quantities, customizeMount, crashed,
                   isProcessing, chatVars, appVars>>

\* the catch and finally blocks of handleCheckout; a 401 logs out and leaves for
\* /login, which unmounts the flow page.  A 401 of a remote call has passed the
\* response interceptor of the client first, which assigns
\* window.location.href = '/login': the document is loaded anew, unless the
\* navigate('/login') of the handler comes before the load (loads = FALSE).
CheckoutCatch(status) ==
    /\ lastCall' = <<"CheckoutStep.handleCheckout.catch", status>>
    /\ IF status = 401
       THEN \E loads \in BOOLEAN :
                IF loads
                THEN PageLoad(LoginPage, FALSE)
                ELSE /\ checkout' = NoCheckout
                     /\ IF crashed
                        THEN /\ isProcessing' = FALSE
                             /\ UNCHANGED <<currentStep, pending, creatingProducts,
                                            quantities, customizeMount, crashed>>
                        ELSE Navigate(currentStep, selectedDinners)
                     /\ location' = LoginPage
                     /\ isAuthenticated' = FALSE
                     /\ UNCHANGED <<selectedAddress, selectedDinners,
                                    globalAdditionalMenuItems, globalMemo, chatVars>>
       ELSE /\ checkout' = NoCheckout
            /\ isProcessing' = FALSE
            /\ UNCHANGED <<currentStep, selectedAddress, selectedDinners,
                           globalAdditionalMenuItems, globalMemo, pending, creatingProducts,
                           quantities, customizeMount, crashed, chatVars, appVars>>

\* a failure handled without the finally block: isProcessing is left as it is
CheckoutFailure_stuck(status) ==
    /\ checkout.pc \in {"createCart", "checkout"}
    /\ checkout' = NoCheckout
    /\ lastCall' = <<"CheckoutStep.handleCheckout.catch", status>>
    /\ UNCHANGED <<currentStep, selectedAddress, selectedDinners, globalAdditionalMenuItems,
                   globalMemo, pending, creatingProducts, quantities, customizeMount, crashed,
                   isProcessing, chatVars, appVars>>

\* handleCheckout resumed by the failure of createCart or of the checkout call
CheckoutFailure(status) ==
    /\ checkout.pc \in {"createCart", "checkout"}
    /\ CheckoutCatch(status)

\* handleCheckout resumed by the response of the checkout call: the order summary
\* reads instance.style.styleName of the selectedDinners of the call, then
\* resetOrder and navigate('/orders')
CheckoutSuccess ==
    /\ checkout.pc = "checkout"
    /\ IF RendersInstances(checkout.selectedDinners)
       THEN /\ currentStep' = "intro"
            /\ selectedAddress' = ""
            /\ selectedDinners' = <<>>
            /\ globalAdditionalMenuItems' = <<>>
            /\ globalMemo' = ""
            /\ quantities' = NoQuantities
            /\ creatingProducts' = {}
            /\ pending' = Unmounted(pending)
            /\ customizeMount' = <<>>
            /\ isProcessing' = FALSE
            /\ checkout' = NoCheckout
            /\ location' = OrdersPage
            /\ lastCall' = <<"CheckoutStep.checkout.then">>
            /\ UNCHANGED <<crashed, chatVars, isAuthenticated>>
       ELSE CheckoutCatch(500)

\* what the failing remote calls of handleCheckout answer with
FailureStatus == {401, 500}

\* the add-on the customize step is driven with
MenuItems == {"wine"}

\* the createProduct requests in flight at a time when the whole flow is explored:
\* one fewer than when the dinner and style steps are explored alone
FlowPending == MaxPending - 1

\* the guided flow from the intro to the checkout, with every remote call
\* answering at any time
NextFlow ==
    \/ IntroNext
    \/ \E a \in Addresses : AddressNext(a)
    \/ PrevStep
    \/ \E d \in FlowDinners : DinnerIncrement(d)
    \/ \E d \in FlowDinners : DinnerDecrement(d)
    \/ DinnerNext
    \/ \E id \in IdPool, i \in 0..(MaxQuantity - 1), s \in FlowStyles :
           StyleSelect(id, i, s, FlowPending)
    \/ \E r \in BagToSet(pending) : MaterializeSuccess(r)
    \/ \E r \in BagToSet(pending) : MaterializeFailure(r)
    \/ StyleNext
    \/ CustomizeLoaded
    \/ \E m \in MenuItems : CustomizeAddGlobal(m)
    \/ CustomizeNext
    \/ CheckoutPrev
    \/ \E hasCards \in BOOLEAN, confirmed \in BOOLEAN : HandleCheckout(hasCards, confirmed)
    \/ AdditionalProductSuccess
    \/ \E status \in FailureStatus : AdditionalProductFailure(status)
    \/ CreateCartSuccess
    \/ \E status \in FailureStatus : CheckoutFailure(status)
    \/ CheckoutSuccess

SpecFlow == Init /\ [][NextFlow]_vars

(***************************************************************************)
(* The customizations of CustomizeStep, then the checkout.                 *)
(***************************************************************************)
\* the - and + buttons of a customization: handleMenuItemQuantityChange with the
\* quantity one lower, not below 0, or one higher
CustomizeChangeQuantity(dinnerItemId, instanceIndex, menuItemId, up) ==
    /\ location = OrderPage
    /\ currentStep = "customize"
    /\ customizeMount = <<>>
    /\ ~ crashed
    /\ \E k \in 1..Len(selectedDinners) :
          /\ selectedDinners[k].id = dinnerItemId
          /\ instanceIndex + 1 <= Len(selectedDinners[k].instances)
          /\ \E c \in 1..Len(selectedDinners[k].instances[instanceIndex + 1].menuCustomizations) :
                LET customization ==
                        selectedDinners[k].instances[instanceIndex + 1].menuCustomizations[c]
                    quantity == IF up THEN customization.currentQuantity + 1
                                ELSE Max(0, customization.currentQuantity - 1)
                IN  /\ customization.menuItemId = menuItemId
                    /\ quantity <= MaxQuantity
                    /\ selectedDinners' =
                           updateInstanceMenuItemQuantity(selectedDinners, dinnerItemId,
                                                          instanceIndex, menuItemId,
                                                          Max(0, quantity))
                    /\ lastCall' = <<"CustomizeStep.handleMenuItemQuantityChange",
                                     dinnerItemId, instanceIndex, menuItemId, quantity>>
    /\ UNCHANGED <<currentStep, selectedAddress, globalAdditionalMenuItems, globalMemo,
                   pending, creatingProducts, quantities, customizeMount, crashed,
                   checkoutVars, chatVars, appVars>>

\* the requests that carry a customization, <<product, menuItemId, quantity>>,
\* which handleCheckout has sent when it is at call: its requests are
\* createAdditionalMenuProduct, createCart and the checkout call, none of them
\* carries a customization
CustomizationRequests(call) == {}

\* one order composed with each createProduct answered before the next style is
\* chosen, its customizations edited, then submitted
NextCustomizeCheckout ==
    \/ IntroNext
    \/ \E a \in Addresses : AddressNext(a)
    \/ \E d \in FlowDinners : DinnerIncrement(d)
    \/ DinnerNext
    \/ \E id \in IdPool, i \in 0..(MaxQuantity - 1), s \in FlowStyles :
           pending = EmptyBag /\ StyleSelect(id, i, s, MaxPending)
    \/ \E r \in BagToSet(pending) : MaterializeSuccess(r)
    \/ StyleNext
    \/ CustomizeLoaded
    \/ \E id \in IdPool, i \in 0..(MaxQuantity - 1), up \in BOOLEAN :
           CustomizeChangeQuantity(id, i, "steak", up)
    \/ CustomizeNext
    \/ CheckoutPrev
    \/ HandleCheckout(TRUE, FALSE)
    \/ CreateCartSuccess
    \/ \E status \in FailureStatus : CheckoutFailure(status)
    \/ CheckoutSuccess

SpecCustomizeCheckout == Init /\ [][NextCustomizeCheckout]_vars

\* both dinners of the catalog and every active style, with createProduct
\* answering at any time
NextEligibility ==
    \/ IntroNext
    \/ \E a \in Addresses : AddressNext(a)
    \/ \E d \in Dinners : DinnerIncrement(d)
    \/ DinnerNext
    \/ \E id \in IdPool, i \in 0..(MaxQuantity - 1), s \in Styles :
           StyleSelect(id, i, s, MaxPending)
    \/ \E r \in BagToSet(pending) : MaterializeSuccess(r)
    \/ \E r \in BagToSet(pending) : MaterializeFailure(r)

SpecEligibility == Init /\ [][NextEligibility]_vars

(***************************************************************************)
(* The rejecting branches of the handleNext handlers: an alert and a       *)
(* return.  The next buttons are disabled under the same conditions.       *)
(***************************************************************************)
FlowRest == <<currentStep, selectedAddress, selectedDinners, globalAdditionalMenuItems,
              globalMemo, pending, creatingProducts, quantities, customizeMount, crashed,
              checkoutVars, chatVars, appVars>>

\* AddressStep.handleNext with a blank input
AddressNextBlocked(input) ==
    /\ location = OrderPage
    /\ currentStep = "address"
    /\ Trim(input) = ""
    /\ lastCall' = <<"AddressStep.handleNext", input>>
    /\ UNCHANGED FlowRest

\* DinnerStep.handleNext with no dinner selected or a quantity below 1
DinnerNextBlocked ==
    /\ location = OrderPage
    /\ currentStep = "dinner"
    /\ \/ Len(selectedDinners) = 0
       \/ \E k \in 1..Len(selectedDinners) : selectedDinners[k].quantity < 1
    /\ lastCall' = <<"DinnerStep.handleNext">>
    /\ UNCHANGED FlowRest

\* StyleStep.handleNext with a style or a product missing, or with no address
StyleNextBlocked ==
    /\ location = OrderPage
    /\ currentStep = "style"
    /\ ~ (allStylesSelected(selectedDinners) /\ selectedAddress # "")
    /\ lastCall' = <<"StyleStep.handleNext">>
    /\ UNCHANGED FlowRest

\* what is typed into the address field
AddressInputs == Addresses \cup BlankInputs

\* the guided flow up to the customize step, each handleNext called whether its
\* validation passes or not
NextValidation ==
    \/ IntroNext
    \/ \E a \in AddressInputs : AddressNext(a)
    \/ \E a \in AddressInputs : AddressNextBlocked(a)
    \/ PrevStep
    \/ \E d \in FlowDinners : DinnerIncrement(d)
    \/ \E d \in FlowDinners : DinnerDecrement(d)
    \/ DinnerNext
    \/ DinnerNextBlocked
    \/ \E id \in IdPool, i \in 0..(MaxQuantity - 1), s \in FlowStyles :
           StyleSelect(id, i, s, FlowPending)
    \/ \E r \in BagToSet(pending) : MaterializeSuccess(r)
    \/ \E r \in BagToSet(pending) : MaterializeFailure(r)
    \/ StyleNext
    \/ StyleNextBlocked

SpecValidation == Init /\ [][NextValidation]_vars

\* the memo field of CustomizeStep: onChange calls setGlobalMemo
CustomizeSetMemo(memo) ==
    /\ location = OrderPage
    /\ currentStep = "customize"
    /\ customizeMount = <<>>
    /\ ~ crashed
    /\ globalMemo' = memo
    /\ lastCall' = <<"CustomizeStep.setGlobalMemo", memo>>
    /\ UNCHANGED <<currentStep, selectedAddress, selectedDinners, globalAdditionalMenuItems,
                   pending, creatingProducts, quantities, customizeMount, crashed,
                   checkoutVars, chatVars, appVars>>

CheckoutMenuItems == {"wine", "bread"}
CheckoutMemos == {"", "no onions"}

\* one order composed with each createProduct answered before the next style is
\* chosen, given add-ons and a memo, then submitted with every remote call of
\* handleCheckout succeeding or failing
NextCheckout ==
    \/ IntroNext
    \/ \E a \in Addresses : AddressNext(a)
    \/ \E d \in FlowDinners : DinnerIncrement(d)
    \/ DinnerNext
    \/ \E id \in IdPool, i \in 0..(MaxQuantity - 1), s \in FlowStyles :
           pending = EmptyBag /\ StyleSelect(id, i, s, MaxPending)
    \/ \E r \in BagToSet(pending) : MaterializeSuccess(r)
    \/ StyleNext
    \/ CustomizeLoaded
    \/ \E m \in CheckoutMenuItems : CustomizeAddGlobal(m)
    \/ \E memo \in CheckoutMemos : CustomizeSetMemo(memo)
    \/ CustomizeNext
    \/ \E hasCards \in BOOLEAN, confirmed \in BOOLEAN : HandleCheckout(hasCards, confirmed)
    \/ AdditionalProductSuccess
    \/ \E status \in FailureStatus : AdditionalProductFailure(status)
    \/ CreateCartSuccess
    \/ \E status \in FailureStatus : CheckoutFailure(status)
    \/ CheckoutSuccess

SpecCheckout == Init /\ [][NextCheckout]_vars

\* what the remote calls of handleCheckout answer with when they fail, the
\* statuses its catch block tells apart
CheckoutStatus == {401, 403, 500}

\* the responses to the remote calls of handleCheckout
CheckoutResponds ==
    \/ AdditionalProductSuccess
    \/ \E status \in CheckoutStatus : AdditionalProductFailure(status)
    \/ CreateCartSuccess
    \/ \E status \in CheckoutStatus : CheckoutFailure(status)
    \/ CheckoutSuccess

\* one order composed and submitted, every outcome of handleCheckout
NextProcessing ==
    \/ IntroNext
    \/ \E a \in Addresses : AddressNext(a)
    \/ \E d \in FlowDinners : DinnerIncrement(d)
    \/ DinnerNext
    \/ \E id \in IdPool, i \in 0..(MaxQuantity - 1), s \in FlowStyles :
           pending = EmptyBag /\ StyleSelect(id, i, s, MaxPending)
    \/ \E r \in BagToSet(pending) : MaterializeSuccess(r)
    \/ StyleNext
    \/ CustomizeLoaded
    \/ \E m \in CheckoutMenuItems : CustomizeAddGlobal(m)
    \/ CustomizeNext
    \/ CheckoutPrev
    \/ \E hasCards \in BOOLEAN, confirmed \in BOOLEAN : HandleCheckout(hasCards, confirmed)
    \/ CheckoutResponds

\* every remote call of handleCheckout is answered in the end
SpecProcessing == Init /\ [][NextProcessing]_vars /\ WF_vars(CheckoutResponds)

(***************************************************************************)
(* The conversational flow of AIChatDrawer.  A dialogue response carries   *)
(* its optional fields as a tuple, empty when the field is absent.  The    *)
(* order items the dialogue service answers with carry no additional menu  *)
(* items.                                                                  *)
(***************************************************************************)
\* VoiceOrderItemDto: the items the dialogue service answers with
ChatItems ==
    UNION {{[dinnerId |-> d, servingStyleId |-> s, quantity |-> q, productId |-> p] :
               p \in {NullProduct} \cup
                     (IF s # NullStyle /\ q > 0 THEN {ProductFor(d, s, q)} ELSE {})} :
           d \in FlowDinners, s \in FlowStyles \cup {NullStyle}, q \in 0..MaxQuantity}

ChatOrders == {<<>>} \cup {<<item>> : item \in ChatItems}

\* the directives of a dialogue response that leave the drawer open
UiActions == {"SHOW_CONFIRM_MODAL", "SHOW_CANCEL_CONFIRM", "UPDATE_ORDER_LIST"}

\* the messages the dialogue holds at most
MaxMessages == 2

\* VoiceChatResponseDto: the fields of a dialogue response that AIChatDrawer reads
ResponseDto(order, totalPrice, address, flowState, uiAction, orderNumber) ==
    [currentOrder |-> order, totalPrice |-> totalPrice, selectedAddress |-> address,
     nextState |-> flowState, uiAction |-> uiAction, orderNumber |-> orderNumber]

\* toggleAIChat of useUIStore, the AI button of the navigation bar, which is shown
\* to an authenticated user
ToggleAIChat ==
    /\ isAuthenticated
    /\ isAIChatOpen' = ~ isAIChatOpen
    /\ lastCall' = <<"useUIStore.toggleAIChat">>
    /\ UNCHANGED <<currentStep, selectedAddress, selectedDinners, globalAdditionalMenuItems,
                   globalMemo, pending, creatingProducts, quantities, customizeMount, crashed,
                   checkoutVars, currentOrder, chatAddress, showConfirmModal, isLoading,
                   chatCall, chatTotalPrice, nextState, messages, isRecording, capture,
                   audioCall, orderTimer, appVars>>

\* sendTextMessage up to the await of sendChatMessage; the input is disabled while
\* isLoading or isRecording
ChatSend ==
    /\ isAIChatOpen
    /\ ~ isLoading
    /\ ~ isRecording
    /\ Len(messages) + 2 <= MaxMessages
    /\ messages' = Append(messages, "user")
    /\ isLoading' = TRUE
    /\ chatCall' = [NoChatCall EXCEPT !.op = "chat",
                                      !.request = [currentOrder |-> IF Len(currentOrder) > 0
                                                                    THEN <<currentOrder>>
                                                                    ELSE <<>>,
                                                   selectedAddress |-> chatAddress]]
    /\ lastCall' = <<"AIChatDrawer.sendTextMessage">>
    /\ UNCHANGED <<currentStep, selectedAddress, selectedDinners, globalAdditionalMenuItems,
                   globalMemo, pending, creatingProducts, quantities, customizeMount, crashed,
                   checkoutVars, currentOrder, chatAddress, showConfirmModal,
                   chatTotalPrice, nextState, isAIChatOpen, isRecording, capture,
                   audioCall, orderTimer, appVars>>

\* handleUiAction reads data.totalPrice.toLocaleString() for the alert of
\* ORDER_COMPLETED: it throws when the response carries an order number and no total
UiActionThrows(data) ==
    /\ data.uiAction = "ORDER_COMPLETED"
    /\ data.orderNumber # <<>>
    /\ data.totalPrice = <<>>

\* handleUiAction clears the local state and closes the drawer
UiActionResets(data) ==
    data.uiAction = "ORDER_COMPLETED" /\ ~ UiActionThrows(data)

\* sendChatMessage past its await, with handleUiAction: the assistant message is
\* appended, the fields the response carries are adopted, then the directive acts
sendChatMessage(data) ==
    /\ messages' = Append(messages, "assistant")
    /\ currentOrder' = IF UiActionResets(data) THEN <<>>
                       ELSE IF data.currentOrder # <<>> THEN data.currentOrder[1]
                       ELSE currentOrder
    /\ chatTotalPrice' = IF UiActionResets(data) THEN 0
                         ELSE IF data.totalPrice # <<>> THEN data.totalPrice[1]
                         ELSE chatTotalPrice
    /\ chatAddress' = IF UiActionResets(data) THEN NullAddress
                      ELSE IF data.selectedAddress # <<>> THEN data.selectedAddress[1]
                      ELSE chatAddress
    /\ nextState' = IF UiActionResets(data) THEN Undefined
                    ELSE IF data.nextState # <<>> THEN data.nextState[1]
                    ELSE nextState
    /\ showConfirmModal' = (showConfirmModal \/ data.uiAction = "SHOW_CONFIRM_MODAL")
    /\ orderTimer' = (orderTimer \/ (UiActionResets(data) /\ data.orderNumber # <<>>))
    /\ isAIChatOpen' = (isAIChatOpen /\ ~ UiActionResets(data))

\* sendChatMessage resumed by the response, then the finally block of sendTextMessage
ChatResponse(data) ==
    /\ chatCall.op = "chat"
    /\ sendChatMessage(data)
    /\ isLoading' = FALSE
    /\ chatCall' = NoChatCall
    /\ lastCall' = <<"AIChatDrawer.sendChatMessage.then", data.uiAction, data.currentOrder,
                     data.totalPrice, data.orderNumber>>
    /\ UNCHANGED <<currentStep, selectedAddress, selectedDinners, globalAdditionalMenuItems,
                   globalMemo, pending, creatingProducts, quantities, customizeMount, crashed,
                   checkoutVars, isRecording, capture, audioCall, appVars>>

\* the catch blocks and the finally block of a call of AIChatDrawer: an alert.
\* A 401 has passed the response interceptor of the client first, which removes
\* the stored session and assigns window.location.href = '/login'; the catch of
\* sendChatMessage also calls closeAIChat.
ChatFailure(status) ==
    /\ chatCall.op # "none"
    /\ lastCall' = <<"AIChatDrawer.catch", chatCall.op, status>>
    /\ IF status = 401
       THEN PageLoad(LoginPage, FALSE)
       ELSE /\ isLoading' = FALSE
            /\ chatCall' = NoChatCall
            /\ UNCHANGED <<currentStep, selectedAddress, selectedDinners,
                           globalAdditionalMenuItems, globalMemo, pending, creatingProducts,
                           quantities, customizeMount, crashed, checkoutVars, currentOrder,
                           chatAddress, showConfirmModal, drawerVars, appVars>>

\* handleConfirmOrder: completedItems
completedItems(order) ==
    SelectSeq(order, LAMBDA item : item.quantity > 0 /\ item.servingStyleId # NullStyle)

\* POST /products/createProduct of handleConfirmOrder
ChatProductRequest(item, address) ==
    [dinnerId |-> item.dinnerId, servingStyleId |-> item.servingStyleId,
     quantity |-> item.quantity, address |-> address, memo |-> ""]

\* POST /carts/createCart of handleConfirmOrder
ChatCartRequest(createdProducts, address) ==
    [items |-> createdProducts, deliveryAddress |-> address, deliveryMethod |-> "Delivery",
     memo |-> ""]

\* handleConfirmOrder from the item at index on: items that carry a productId are
\* pushed as they are, the first one that does not has its createProduct sent;
\* past the last item createCart is sent, or the call throws with nothing created
RECURSIVE ConfirmLoop(_, _, _, _)
ConfirmLoop(items, index, created, address) ==
    IF index > Len(items)
    THEN IF created = <<>>
         THEN NoChatCall
         ELSE [op |-> "createCart", items |-> items, index |-> index, created |-> created,
               request |-> ChatCartRequest(created, address)]
    ELSE IF items[index].servingStyleId = NullStyle \/ items[index].quantity <= 0
    THEN ConfirmLoop(items, index + 1, created, address)
    ELSE IF items[index].productId # NullProduct
    THEN ConfirmLoop(items, index + 1,
                     Append(created, [productId |-> items[index].productId,
                                      quantity |-> items[index].quantity]),
                     address)
    ELSE [op |-> "createProduct", items |-> items, index |-> index, created |-> created,
          request |-> ChatProductRequest(items[index], address)]

\* handleConfirmOrder up to its first await; the confirm button is in the modal
\* and disabled while isLoading
ChatConfirm ==
    /\ showConfirmModal
    /\ ~ isLoading
    /\ IF completedItems(currentOrder) = <<>>
       THEN /\ lastCall' = <<"AIChatDrawer.handleConfirmOrder", "nothingCompleted">>
            /\ UNCHANGED <<isLoading, chatCall>>
       ELSE IF chatAddress \in {NullAddress, ""}
       THEN /\ lastCall' = <<"AIChatDrawer.handleConfirmOrder", "noAddress">>
            /\ UNCHANGED <<isLoading, chatCall>>
       ELSE LET call == ConfirmLoop(completedItems(currentOrder), 1, <<>>, chatAddress)
            IN  /\ chatCall' = call
                /\ isLoading' = (call.op # "none")
                /\ lastCall' = <<"AIChatDrawer.handleConfirmOrder", "submitted">>
    /\ UNCHANGED <<currentStep, selectedAddress, selectedDinners, globalAdditionalMenuItems,
                   globalMemo, pending, creatingProducts, quantities, customizeMount, crashed,
                   checkoutVars, currentOrder, chatAddress, showConfirmModal, drawerVars, appVars>>

\* handleConfirmOrder resumed by the response of createProduct
ChatProductSuccess ==
    /\ chatCall.op = "createProduct"
    /\ LET item == chatCall.items[chatCall.index]
           call == ConfirmLoop(chatCall.items, chatCall.index + 1,
                               Append(chatCall.created,
                                      [productId |-> ProductFor(chatCall.request.dinnerId,
                                                                chatCall.request.servingStyleId,
                                                                chatCall.request.quantity),
                                       quantity |-> item.quantity]),
                               chatCall.request.address)
       IN  /\ chatCall' = call
           /\ isLoading' = (call.op # "none")
    /\ lastCall' = <<"AIChatDrawer.createProduct.then">>
    /\ UNCHANGED <<currentStep, selectedAddress, selectedDinners, globalAdditionalMenuItems,
                   globalMemo, pending, creatingProducts, quantities, customizeMount, crashed,
                   checkoutVars, currentOrder, chatAddress, showConfirmModal, drawerVars, appVars>>

\* handleConfirmOrder resumed by the response of createCart: the checkout call is sent
ChatCartSuccess ==
    /\ chatCall.op = "createCart"
    /\ chatCall' = [chatCall EXCEPT !.op = "checkout"]
    /\ lastCall' = <<"AIChatDrawer.createCart.then">>
    /\ UNCHANGED <<currentStep, selectedAddress, selectedDinners, globalAdditionalMenuItems,
                   globalMemo, pending, creatingProducts, quantities, customizeMount, crashed,
                   checkoutVars, currentOrder, chatAddress, showConfirmModal, isLoading,
                   drawerVars, appVars>>

\* handleConfirmOrder resumed by the response of the checkout call:
\* handleCancelOrder, then window.location.reload() starts the application anew
ChatCheckoutSuccess ==
    /\ chatCall.op = "checkout"
    /\ PageLoad(location, isAuthenticated)
    /\ lastCall' = <<"AIChatDrawer.checkout.then">>

\* one order composed in the guided flow, each createProduct answered before the
\* next style is chosen, and one composed in the conversation, both submitted
NextPayload ==
    \/ IntroNext
    \/ \E a \in Addresses : AddressNext(a)
    \/ \E d \in FlowDinners : DinnerIncrement(d)
    \/ DinnerNext
    \/ \E id \in IdPool, i \in 0..(MaxQuantity - 1), s \in FlowStyles :
           pending = EmptyBag /\ StyleSelect(id, i, s, MaxPending)
    \/ \E r \in BagToSet(pending) : MaterializeSuccess(r)
    \/ StyleNext
    \/ CustomizeLoaded
    \/ CustomizeNext
    \/ HandleCheckout(TRUE, FALSE)
    \/ CreateCartSuccess
    \/ CheckoutSuccess
    \/ ~ isAIChatOpen /\ ToggleAIChat
    \/ ChatSend
    \/ \E order \in {<<>>} \cup {<<o>> : o \in ChatOrders},
          address \in {<<>>} \cup {<<a>> : a \in Addresses},
          uiAction \in UiActions :
           ChatResponse(ResponseDto(order, <<0>>, address, <<>>, uiAction, <<>>))
    \/ ChatFailure(500)
    \/ ChatConfirm
    \/ ChatProductSuccess
    \/ ChatCartSuccess
    \/ ChatCheckoutSuccess

SpecPayload == Init /\ [][NextPayload]_vars

(***************************************************************************)
(* The drawer of AIChatDrawer: the dialogue turns with every directive,    *)
(* the voice recording, and the ways the drawer closes.                    *)
(***************************************************************************)
\* handleLogin of LoginPage, answered with success: login, then navigate to '/'
HandleLogin ==
    /\ location = LoginPage
    /\ ~ isAuthenticated
    /\ isAuthenticated' = TRUE
    /\ location' = OrderPage
    /\ lastCall' = <<"LoginPage.handleLogin">>
    /\ UNCHANGED <<currentStep, selectedAddress, selectedDinners, globalAdditionalMenuItems,
                   globalMemo, pending, creatingProducts, quantities, customizeMount, crashed,
                   checkoutVars, chatVars>>

\* handleQuantityChange up to its await
QuantityChange(itemIndex, newQuantity) ==
    /\ chatCall.op = "none"
    /\ Len(messages) + 1 + (IF isRecording \/ audioCall THEN 1 ELSE 0) <= MaxMessages
    /\ newQuantity >= 1
    /\ itemIndex + 1 \in DOMAIN currentOrder
    /\ currentOrder[itemIndex + 1].servingStyleId # NullStyle
    /\ isLoading' = TRUE
    /\ chatCall' = [NoChatCall EXCEPT !.op = "quantityChange",
                                      !.request = [currentOrder |-> <<currentOrder>>,
                                                   selectedAddress |-> chatAddress]]
    /\ lastCall' = <<"AIChatDrawer.handleQuantityChange", itemIndex, newQuantity>>
    /\ UNCHANGED <<currentStep, selectedAddress, selectedDinners, globalAdditionalMenuItems,
                   globalMemo, pending, creatingProducts, quantities, customizeMount, crashed,
                   checkoutVars, currentOrder, chatAddress, showConfirmModal, drawerVars,
                   appVars>>

\* handleQuantityChange resumed by the response, then its finally block
QuantityResponse(data) ==
    /\ chatCall.op = "quantityChange"
    /\ Len(messages) < MaxMessages
    /\ currentOrder' = IF data.currentOrder # <<>> THEN data.currentOrder[1]
                       ELSE currentOrder
    /\ chatTotalPrice' = IF data.totalPrice # <<>> THEN data.totalPrice[1]
                         ELSE chatTotalPrice
    /\ messages' = Append(messages, "assistant")
    /\ isLoading' = FALSE
    /\ chatCall' = NoChatCall
    /\ lastCall' = <<"AIChatDrawer.handleQuantityChange.then", data.uiAction,
                     data.currentOrder, data.totalPrice, data.orderNumber>>
    /\ UNCHANGED <<currentStep, selectedAddress, selectedDinners, globalAdditionalMenuItems,
                   globalMemo, pending, creatingProducts, quantities, customizeMount, crashed,
                   checkoutVars, chatAddress, showConfirmModal, nextState, isAIChatOpen,
                   isRecording, capture, audioCall, orderTimer, appVars>>

\* startRecording, with the microphone granted; the button is disabled while
\* isLoading
StartRecording ==
    /\ isAIChatOpen
    /\ ~ isLoading
    /\ ~ isRecording
    /\ capture = "none"
    /\ Len(messages) < MaxMessages
    /\ isRecording' = TRUE
    /\ capture' = "recording"
    /\ lastCall' = <<"AIChatDrawer.startRecording">>
    /\ UNCHANGED <<currentStep, selectedAddress, selectedDinners, globalAdditionalMenuItems,
                   globalMemo, pending, creatingProducts, quantities, customizeMount, crashed,
                   checkoutVars, currentOrder, chatAddress, showConfirmModal, isLoading,
                   chatCall, chatTotalPrice, nextState, messages, isAIChatOpen, audioCall,
                   orderTimer, appVars>>

\* stopRecording from the record button, then onstop of the recorder up to the
\* await of sendAudioMessage: the stream stays live until the turn is over
StopRecording ==
    /\ isAIChatOpen
    /\ ~ isLoading
    /\ isRecording
    /\ isRecording' = FALSE
    /\ capture' = "stopping"
    /\ isLoading' = TRUE
    /\ audioCall' = TRUE
    /\ lastCall' = <<"AIChatDrawer.stopRecording">>
    /\ UNCHANGED <<currentStep, selectedAddress, selectedDinners, globalAdditionalMenuItems,
                   globalMemo, pending, creatingProducts, quantities, customizeMount, crashed,
                   checkoutVars, currentOrder, chatAddress, showConfirmModal, chatCall,
                   chatTotalPrice, nextState, messages, isAIChatOpen, orderTimer, appVars>>

\* handleClose, from the backdrop or the close button of the drawer: stopRecording
\* when isRecording (with onstop as in StopRecording), the local state cleared,
\* closeAIChat
HandleClose ==
    /\ isAIChatOpen
    /\ IF isRecording
       THEN /\ isRecording' = FALSE
            /\ capture' = "stopping"
            /\ isLoading' = TRUE
            /\ audioCall' = TRUE
       ELSE UNCHANGED <<isRecording, capture, isLoading, audioCall>>
    /\ currentOrder' = <<>>
    /\ chatTotalPrice' = 0
    /\ chatAddress' = NullAddress
    /\ messages' = <<>>
    /\ showConfirmModal' = FALSE
    /\ isAIChatOpen' = FALSE
    /\ lastCall' = <<"AIChatDrawer.handleClose", isRecording>>
    /\ UNCHANGED <<currentStep, selectedAddress, selectedDinners, globalAdditionalMenuItems,
                   globalMemo, pending, creatingProducts, quantities, customizeMount, crashed,
                   checkoutVars, chatCall, nextState, orderTimer, appVars>>

\* sendAudioMessage resumed by the response of its sendChatMessage, its finally
\* block, then onstop stops the tracks of the stream
AudioResponse(data) ==
    /\ audioCall
    /\ Len(messages) < MaxMessages
    /\ sendChatMessage(data)
    /\ isLoading' = FALSE
    /\ audioCall' = FALSE
    /\ capture' = "none"
    /\ lastCall' = <<"AIChatDrawer.sendChatMessage.then", data.uiAction, data.currentOrder,
                     data.totalPrice, data.orderNumber>>
    /\ UNCHANGED <<currentStep, selectedAddress, selectedDinners, globalAdditionalMenuItems,
                   globalMemo, pending, creatingProducts, quantities, customizeMount, crashed,
                   checkoutVars, isRecording, chatCall, appVars>>

\* sendAudioMessage resumed by the failure of its sendChatMessage
AudioFailure(status) ==
    /\ audioCall
    /\ lastCall' = <<"AIChatDrawer.catch", "chat", status>>
    /\ IF status = 401
       THEN PageLoad(LoginPage, FALSE)
       ELSE /\ isLoading' = FALSE
            /\ audioCall' = FALSE
            /\ capture' = "none"
            /\ UNCHANGED <<currentStep, selectedAddress, selectedDinners,
                           globalAdditionalMenuItems, globalMemo, pending, creatingProducts,
                           quantities, customizeMount, crashed, checkoutVars, currentOrder,
                           chatAddress, showConfirmModal, chatCall, chatTotalPrice, nextState,
                           messages, isAIChatOpen, isRecording, orderTimer, appVars>>

\* the timer of ORDER_COMPLETED fires: window.location.href = '/orders'
OrderTimerFires ==
    /\ orderTimer
    /\ PageLoad(OrdersPage, isAuthenticated)
    /\ lastCall' = <<"AIChatDrawer.setTimeout">>

\* the directives a dialogue response is given in the drawer
DrawerUiActions == UiActions \cup {"NONE", "ORDER_COMPLETED"}

\* the order item, the total and the order number of the responses in the drawer
DrawerItem ==
    [dinnerId |-> "valentine", servingStyleId |-> "simple", quantity |-> 1,
     productId |-> NullProduct]
DrawerTotal == 30000
DrawerOrderNumber == "ORD-1"

\* the dialogue responses in the drawer: each field present or absent, the
\* address and the flow state together
DrawerResponses ==
    {ResponseDto(order, totalPrice, context[1], context[2], uiAction, orderNumber) :
        order \in {<<>>, <<<<>>>>, <<<<DrawerItem>>>>},
        totalPrice \in {<<>>, <<0>>, <<DrawerTotal>>},
        context \in {<<<<>>, <<>>>>, <<<<"Seoul">>, <<"CONFIRMING">>>>},
        uiAction \in DrawerUiActions,
        orderNumber \in {<<>>, <<DrawerOrderNumber>>}}

\* dialogue turns by text with every directive, answered or failing, the drawer
\* opened and closed
NextDrawer ==
    \/ ToggleAIChat
    \/ ChatSend
    \/ \E data \in DrawerResponses : ChatResponse(data)
    \/ \E status \in FailureStatus : ChatFailure(status)
    \/ \E itemIndex \in 0..1, newQuantity \in 0..2 : QuantityChange(itemIndex, newQuantity)
    \/ \E data \in DrawerResponses : QuantityResponse(data)
    \/ HandleClose
    \/ OrderTimerFires
    \/ HandleLogin

SpecDrawer == Init /\ [][NextDrawer]_vars

\* the dialogue responses of the voice turns: advisory, confirming or
\* order-completed, with an order number or none
RecordingResponses ==
    {ResponseDto(<<<<DrawerItem>>>>, <<DrawerTotal>>, <<>>, <<>>, uiAction, orderNumber) :
        uiAction \in {"NONE", "SHOW_CONFIRM_MODAL", "ORDER_COMPLETED"},
        orderNumber \in {<<>>, <<DrawerOrderNumber>>}}

\* voice turns: the recording started and stopped, the audio answered or failing,
\* the drawer opened and closed by each of its paths
NextRecording ==
    \/ ToggleAIChat
    \/ ChatSend
    \/ \E data \in RecordingResponses : ChatResponse(data)
    \/ \E status \in FailureStatus : ChatFailure(status)
    \/ StartRecording
    \/ StopRecording
    \/ HandleClose
    \/ \E data \in RecordingResponses : AudioResponse(data)
    \/ \E status \in FailureStatus : AudioFailure(status)
    \/ OrderTimerFires
    \/ HandleLogin

SpecRecording == Init /\ [][NextRecording]_vars

(***************************************************************************)
(* The global additional menu items, called directly.  lastCall records   *)
(* the list the call was applied to.                                       *)
(***************************************************************************)
removeGlobalAdditionalMenuItem(items, menuItemId) ==
    SelectSeq(items, LAMBDA item : item.menuItemId # menuItemId)

\* an update that drops the entry when the quantity is not positive
updateGlobalAdditionalMenuItemQuantity_drop(items, menuItemId, quantity) ==
    IF quantity < 1
    THEN SelectSeq(items, LAMBDA item : item.menuItemId # menuItemId)
    ELSE [k \in 1..Len(items) |->
             IF items[k].menuItemId = menuItemId
             THEN [items[k] EXCEPT !.quantity = quantity] ELSE items[k]]

updateGlobalAdditionalMenuItemQuantity(items, menuItemId, quantity) ==
    [k \in 1..Len(items) |->
        IF items[k].menuItemId = menuItemId
        THEN [items[k] EXCEPT !.quantity = Max(1, quantity)] ELSE items[k]]

AddOnRest == <<currentStep, selectedAddress, selectedDinners, globalMemo,
               pending, creatingProducts, quantities, customizeMount, crashed,
               checkoutVars, chatVars, appVars>>

SetGlobalAdditionalMenuItemsCall(items) ==
    /\ globalAdditionalMenuItems' = items
    /\ lastCall' = <<"setGlobalAdditionalMenuItems", items, globalAdditionalMenuItems>>
    /\ UNCHANGED AddOnRest

AddGlobalAdditionalMenuItemCall(menuItemId) ==
    /\ globalAdditionalMenuItems' =
           addGlobalAdditionalMenuItem(globalAdditionalMenuItems, menuItemId)
    /\ lastCall' = <<"addGlobalAdditionalMenuItem", menuItemId, globalAdditionalMenuItems>>
    /\ UNCHANGED AddOnRest

RemoveGlobalAdditionalMenuItemCall(menuItemId) ==
    /\ globalAdditionalMenuItems' =
           removeGlobalAdditionalMenuItem(globalAdditionalMenuItems, menuItemId)
    /\ lastCall' = <<"removeGlobalAdditionalMenuItem", menuItemId, globalAdditionalMenuItems>>
    /\ UNCHANGED AddOnRest

UpdateGlobalAdditionalMenuItemQuantityCall(menuItemId, quantity) ==
    /\ globalAdditionalMenuItems' =
           updateGlobalAdditionalMenuItemQuantity(globalAdditionalMenuItems, menuItemId,
                                                  quantity)
    /\ lastCall' = <<"updateGlobalAdditionalMenuItemQuantity", menuItemId,
                     globalAdditionalMenuItems, quantity>>
    /\ UNCHANGED AddOnRest

AddOnIds == {"wine", "bread"}
AddOnEntries == [menuItemId : AddOnIds, quantity : 1..MaxQuantity]
\* the lists a caller can hand to setGlobalAdditionalMenuItems
AddOnLists == {<<>>} \cup {<<e>> : e \in AddOnEntries}
                     \cup {<<e, f>> : e \in AddOnEntries, f \in AddOnEntries}

NextAddOn ==
    \/ \E items \in AddOnLists : SetGlobalAdditionalMenuItemsCall(items)
    \/ \E mi \in AddOnIds : AddGlobalAdditionalMenuItemCall(mi)
    \/ \E mi \in AddOnIds : RemoveGlobalAdditionalMenuItemCall(mi)
    \/ \E mi \in AddOnIds, q \in QuantityArgs :
           UpdateGlobalAdditionalMenuItemQuantityCall(mi, q)

SpecAddOn == Init /\ [][NextAddOn]_vars

(***************************************************************************)
(* Step, address, memo and reset, called directly.  For resetOrder         *)
(* lastCall records the five fields the call was applied to, for the step  *)
(* operations the step they were applied to.                               *)
(***************************************************************************)
ComponentVars == <<pending, creatingProducts, quantities, customizeMount, crashed,
                   checkoutVars, chatVars, appVars>>

SetStepCall(step) ==
    /\ currentStep' = step
    /\ lastCall' = <<"setStep", currentStep, step>>
    /\ UNCHANGED <<selectedAddress, selectedDinners, globalAdditionalMenuItems, globalMemo,
                   ComponentVars>>

NextStepCall ==
    /\ currentStep' = nextStep(currentStep)
    /\ lastCall' = <<"nextStep", currentStep>>
    /\ UNCHANGED <<selectedAddress, selectedDinners, globalAdditionalMenuItems, globalMemo,
                   ComponentVars>>

PrevStepCall ==
    /\ currentStep' = prevStep(currentStep)
    /\ lastCall' = <<"prevStep", currentStep>>
    /\ UNCHANGED <<selectedAddress, selectedDinners, globalAdditionalMenuItems, globalMemo,
                   ComponentVars>>

SetAddressCall(address) ==
    /\ selectedAddress' = address
    /\ lastCall' = <<"setAddress", address>>
    /\ UNCHANGED <<currentStep, selectedDinners, globalAdditionalMenuItems, globalMemo,
                   ComponentVars>>

SetGlobalMemoCall(memo) ==
    /\ globalMemo' = memo
    /\ lastCall' = <<"setGlobalMemo", memo>>
    /\ UNCHANGED <<currentStep, selectedAddress, selectedDinners, globalAdditionalMenuItems,
                   ComponentVars>>

\* a reset that forgets to clear the memo
resetOrder_keepMemo ==
    [currentStep |-> "intro", selectedAddress |-> "", selectedDinners |-> <<>>,
     globalAdditionalMenuItems |-> <<>>, globalMemo |-> globalMemo]

\* the object resetOrder hands to set
resetOrder ==
    [currentStep |-> "intro", selectedAddress |-> "", selectedDinners |-> <<>>,
     globalAdditionalMenuItems |-> <<>>, globalMemo |-> ""]

ResetOrderCall ==
    /\ currentStep' = resetOrder.currentStep
    /\ selectedAddress' = resetOrder.selectedAddress
    /\ selectedDinners' = resetOrder.selectedDinners
    /\ globalAdditionalMenuItems' = resetOrder.globalAdditionalMenuItems
    /\ globalMemo' = resetOrder.globalMemo
    /\ lastCall' = <<"resetOrder", currentStep, selectedAddress, Len(selectedDinners),
                     Len(globalAdditionalMenuItems), globalMemo>>
    /\ UNCHANGED ComponentVars

Memos == {"", "no onions"}

NextStep ==
    \/ \E step \in {STEP_ORDER[k] : k \in 1..Len(STEP_ORDER)} : SetStepCall(step)
    \/ NextStepCall
    \/ PrevStepCall
    \/ \E a \in Addresses \cup {""} : SetAddressCall(a)
    \/ \E memo \in Memos : SetGlobalMemoCall(memo)
    \/ AddDinnerCall("valentine", 1)
    \/ AddGlobalAdditionalMenuItemCall("wine")
    \/ ResetOrderCall

SpecStep == Init /\ [][NextStep]_vars

(***************************************************************************)
(* Prices.  A dinner carries its basePrice, a serving style its            *)
(* extraPrice, a product the totalPrice the product service answered with; *)
(* allMenuItems is the menu list CustomizeStep and CheckoutStep load after *)
(* they mount, empty until the response arrives and when the request       *)
(* fails.                                                                  *)
(***************************************************************************)
basePrice == [valentine |-> 10000, champagne |-> 20000]
extraPrice == [simple |-> 0, grand |-> 2000]
unitPrice == [steak |-> 500, wine |-> 3000, bread |-> 1000]

\* ProductResponseDto.totalPrice of the product a createProduct request made
ProductTotalPrice(product) == (basePrice[product[1]] + extraPrice[product[2]]) * product[3]

LoadedMenuItems == <<[id |-> "steak", unitPrice |-> unitPrice["steak"]],
                     [id |-> "wine", unitPrice |-> unitPrice["wine"]],
                     [id |-> "bread", unitPrice |-> unitPrice["bread"]]>>
MenuItemLists == {<<>>, LoadedMenuItems}

RECURSIVE SumSeq(_)
SumSeq(s) == IF Len(s) = 0 THEN 0 ELSE s[1] + SumSeq(SubSeq(s, 2, Len(s)))

\* allMenuItems.find(m => m.id === menuItemId): the entries found, at most the first
FindMenuItem(allMenuItems, menuItemId) ==
    LET found == SelectSeq(allMenuItems, LAMBDA mi : mi.id = menuItemId)
    IN  IF Len(found) = 0 THEN <<>> ELSE <<found[1]>>

\* the forEach over menuCustomizations of calculateProductPrice
MenuItemsTotal(customizations, allMenuItems) ==
    SumSeq([c \in 1..Len(customizations) |->
               LET menuItem == FindMenuItem(allMenuItems, customizations[c].menuItemId)
               IN  IF Len(menuItem) = 0 THEN 0
                   ELSE menuItem[1].unitPrice *
                            (customizations[c].currentQuantity -
                                 customizations[c].defaultQuantity)])

\* the forEach over globalAdditionalMenuItems of calculateTotalPrice
AdditionalTotal(items, allMenuItems) ==
    SumSeq([a \in 1..Len(items) |->
               LET menuItem == FindMenuItem(allMenuItems, items[a].menuItemId)
               IN  IF Len(menuItem) = 0 THEN 0
                   ELSE menuItem[1].unitPrice * items[a].quantity])

\* a getTotalPrice that adds the global additional menu items at their unit price
getTotalPrice_withAdditional(sd, items) ==
    SumSeq([k \in 1..Len(sd) |->
               SumSeq([j \in 1..Len(sd[k].instances) |->
                          IF sd[k].instances[j].product # NullProduct
                          THEN ProductTotalPrice(sd[k].instances[j].product) ELSE 0])])
        + SumSeq([a \in 1..Len(items) |-> unitPrice[items[a].menuItemId] * items[a].quantity])

\* getTotalPrice of the store; items is the global list, which it does not read
getTotalPrice(sd, items) ==
    SumSeq([k \in 1..Len(sd) |->
               SumSeq([j \in 1..Len(sd[k].instances) |->
                          IF sd[k].instances[j].product # NullProduct
                          THEN ProductTotalPrice(sd[k].instances[j].product) ELSE 0])])

\* a calculateProductPrice that never goes below the price of dinner and style
calculateProductPrice_floored(dinnerItem, instanceIndex, allMenuItems) ==
    LET instance == dinnerItem.instances[instanceIndex + 1]
    IN  IF instance.product = NullProduct \/ instance.style = NullStyle THEN 0
        ELSE basePrice[dinnerItem.dinner] + extraPrice[instance.style]
                 + Max(0, MenuItemsTotal(instance.menuCustomizations, allMenuItems))

\* calculateProductPrice, the same in CustomizeStep and in CheckoutStep
calculateProductPrice(dinnerItem, instanceIndex, allMenuItems) ==
    LET instance == dinnerItem.instances[instanceIndex + 1]
    IN  IF instance.product = NullProduct \/ instance.style = NullStyle THEN 0
        ELSE basePrice[dinnerItem.dinner] + extraPrice[instance.style]
                 + MenuItemsTotal(instance.menuCustomizations, allMenuItems)

\* CustomizeStep.calculateTotalPrice
CustomizeStepTotalPrice(sd, items, allMenuItems) ==
    SumSeq([k \in 1..Len(sd) |->
               SumSeq([j \in 1..Len(sd[k].instances) |->
                          IF /\ sd[k].instances[j].product # NullProduct
                             /\ sd[k].instances[j].style # NullStyle
                          THEN calculateProductPrice(sd[k], j - 1, allMenuItems)
                          ELSE 0])])
        + AdditionalTotal(items, allMenuItems)

\* CheckoutStep.calculateTotalPrice
CheckoutStepTotalPrice(sd, items, allMenuItems) ==
    SumSeq([k \in 1..Len(sd) |->
               SumSeq([j \in 1..Len(sd[k].instances) |->
                          IF /\ sd[k].instances[j].product # NullProduct
                             /\ sd[k].instances[j].style # NullStyle
                          THEN basePrice[sd[k].dinner]
                                   + extraPrice[sd[k].instances[j].style]
                                   + MenuItemsTotal(sd[k].instances[j].menuCustomizations,
                                                    allMenuItems)
                          ELSE IF sd[k].instances[j].style # NullStyle
                          THEN calculateProductPrice(sd[k], j - 1, allMenuItems)
                          ELSE 0])])
        + AdditionalTotal(items, allMenuItems)

PriceRest == <<currentStep, selectedAddress, selectedDinners, globalAdditionalMenuItems,
               globalMemo, ComponentVars>>

GetTotalPriceCall ==
    /\ lastCall' = <<"getTotalPrice",
                     getTotalPrice(selectedDinners, globalAdditionalMenuItems)>>
    /\ UNCHANGED PriceRest

\* calculateProductPrice of the component for an instance that exists
CalculateProductPriceCall(component, dinnerItemId, instanceIndex, allMenuItems) ==
    /\ \E k \in 1..Len(selectedDinners) :
           /\ selectedDinners[k].id = dinnerItemId
           /\ instanceIndex + 1 <= Len(selectedDinners[k].instances)
           /\ lastCall' = <<"calculateProductPrice", component, k, instanceIndex,
                            Len(allMenuItems) > 0,
                            calculateProductPrice(selectedDinners[k], instanceIndex,
                                                  allMenuItems)>>
    /\ UNCHANGED PriceRest

CalculateTotalPriceCall(component, allMenuItems) ==
    /\ lastCall' = <<"calculateTotalPrice", component, Len(allMenuItems) > 0,
                     IF component = "CustomizeStep"
                     THEN CustomizeStepTotalPrice(selectedDinners, globalAdditionalMenuItems,
                                                  allMenuItems)
                     ELSE CheckoutStepTotalPrice(selectedDinners, globalAdditionalMenuItems,
                                                 allMenuItems)>>
    /\ UNCHANGED PriceRest

PriceComponents == {"CustomizeStep", "CheckoutStep"}

\* the customizations CustomizeStep initialises an instance with
PriceCustomizations ==
    {<<[menuItemId |-> "steak", defaultQuantity |-> MaxQuantity,
        currentQuantity |-> MaxQuantity]>>}

\* an order built through the store, priced at any moment
NextPrice ==
    \/ AddDinnerCall("valentine", 1)
    \/ \E s \in Styles : SetInstanceStyleCall(1, 0, s)
    \/ \E product \in ProductArgs : SetInstanceProductCall(1, 0, product)
    \/ \E c \in PriceCustomizations : SetInstanceMenuCustomizationsCall(1, 0, c)
    \/ \E q \in 0..(2 * MaxQuantity) : UpdateInstanceMenuItemQuantityCall(1, 0, "steak", q)
    \/ AddGlobalAdditionalMenuItemCall("wine")
    \/ \E q \in 1..MaxQuantity : UpdateGlobalAdditionalMenuItemQuantityCall("wine", q)
    \/ GetTotalPriceCall
    \/ \E c \in PriceComponents, i \in IndexArgs, menu \in MenuItemLists :
           CalculateProductPriceCall(c, 1, i, menu)
    \/ \E c \in PriceComponents, menu \in MenuItemLists : CalculateTotalPriceCall(c, menu)

SpecPrice == Init /\ [][NextPrice]_vars

(***************************************************************************)
(* Properties of the store operations                                      *)
(***************************************************************************)
\* the entries of sd other than position k are the same in sd2
OthersUnchanged(sd, sd2, k) ==
    /\ Len(sd2) = Len(sd)
    /\ \A j \in 1..Len(sd) : j # k => sd2[j] = sd[j]

\* C2: right after setInstanceStyle(d, i, s) on a selected dinner d, instance i
\* of d has style s, no product and no customizations.
C2_StyleClearsProduct ==
    lastCall[1] = "setInstanceStyle" =>
        \A k \in 1..Len(selectedDinners) :
            selectedDinners[k].id = lastCall[2] =>
                /\ Len(selectedDinners[k].instances) >= lastCall[3] + 1
                /\ selectedDinners[k].instances[lastCall[3] + 1].style = lastCall[4]
                /\ selectedDinners[k].instances[lastCall[3] + 1].product = <<>>
                /\ selectedDinners[k].instances[lastCall[3] + 1].menuCustomizations = <<>>

\* a style replaced another on an instance that had a product and customizations
C2_Witness ==
    /\ lastCall[1] = "setInstanceStyle"
    /\ lastCall[4] = "grand"
    /\ lastCall[5] # <<>>
    /\ lastCall[5][1].style = "simple"
    /\ lastCall[5][1].product # <<>>
    /\ lastCall[5][1].menuCustomizations # <<>>
    /\ \E k \in 1..Len(selectedDinners) : selectedDinners[k].id = lastCall[2]

\* C6: addDinner(dinner, q) with q > 0 adds q to the quantity of the entry of
\* that dinner and empties its instances, id and position kept; when there is
\* no such entry it appends one with quantity q and no instances.
C6_AddDinner ==
    [][\A d \in Dinners, q \in 1..MaxQuantity :
          (lastCall'[1] = "addDinner" /\ lastCall'[2] = d /\ lastCall'[3] = q /\ AddDinnerCall(d, q)) =>
              IF \E k \in 1..Len(selectedDinners) : selectedDinners[k].dinner = d
              THEN \E k \in 1..Len(selectedDinners) :
                      /\ selectedDinners[k].dinner = d
                      /\ selectedDinners'[k].quantity = selectedDinners[k].quantity + q
                      /\ selectedDinners'[k].instances = <<>>
                      /\ selectedDinners'[k].id = selectedDinners[k].id
                      /\ selectedDinners'[k].dinner = d
                      /\ OthersUnchanged(selectedDinners, selectedDinners', k)
              ELSE /\ Len(selectedDinners') = Len(selectedDinners) + 1
                   /\ SubSeq(selectedDinners', 1, Len(selectedDinners)) = selectedDinners
                   /\ selectedDinners'[Len(selectedDinners')].dinner = d
                   /\ selectedDinners'[Len(selectedDinners')].quantity = q
                   /\ selectedDinners'[Len(selectedDinners')].instances = <<>>
      ]_vars

\* a dinner that was selected and had instances was added again
C6_Witness ==
    /\ lastCall[1] = "addDinner"
    /\ lastCall[3] > 0
    /\ lastCall[4] # <<>>
    /\ lastCall[4][2] > 0
    /\ Len(selectedDinners) = 2

\* C7: addDinner(dinner, q) with q <= 0 leaves the store as it was.
C7_NonPositiveRejected ==
    [][\A d \in Dinners, q \in QuantityArgs :
          (q <= 0 /\ lastCall'[1] = "addDinner" /\ lastCall'[2] = d /\ lastCall'[3] = q /\ AddDinnerCall(d, q)) =>
              selectedDinners' = selectedDinners
      ]_vars

\* C8: updateDinnerQuantity(id, q) with q <= 0 gives the list removeDinner(id)
\* gives; with q > 0 the entry id gets quantity q and no instances, nothing
\* else changes.
C8_UpdateDinnerQuantity ==
    [][\A id \in StoreIds, q \in QuantityArgs :
          (lastCall'[1] = "updateDinnerQuantity" /\ lastCall'[2] = id /\ lastCall'[3] = q
              /\ UpdateDinnerQuantityCall(id, q)) =>
              IF q <= 0
              THEN /\ selectedDinners' = removeDinner(selectedDinners, id)
                   /\ \A k \in 1..Len(selectedDinners') : selectedDinners'[k].id # id
              ELSE /\ Len(selectedDinners') = Len(selectedDinners)
                   /\ \A k \in 1..Len(selectedDinners) :
                         IF selectedDinners[k].id = id
                         THEN selectedDinners'[k] =
                                  [id |-> id, dinner |-> selectedDinners[k].dinner,
                                   quantity |-> q, instances |-> <<>>]
                         ELSE selectedDinners'[k] = selectedDinners[k]
      ]_vars

\* the quantity of a dinner that had instances was changed
C8_Witness ==
    /\ lastCall[1] = "updateDinnerQuantity"
    /\ lastCall[3] > 0
    /\ lastCall[4] # <<>>
    /\ lastCall[4][2] > 0
    /\ \E k \in 1..Len(selectedDinners) :
          /\ selectedDinners[k].id = lastCall[2]
          /\ selectedDinners[k].instances = <<>>

\* C9: removeDinner(id) deletes the entry id and nothing else; with no entry
\* id in the list (as after a first removeDinner(id)) it changes nothing.
C9_RemoveDinner ==
    [][\A id \in StoreIds :
          (lastCall'[1] = "removeDinner" /\ lastCall'[2] = id /\ RemoveDinnerCall(id)) =>
              /\ \A k \in 1..Len(selectedDinners') : selectedDinners'[k].id # id
              /\ IF \E k \in 1..Len(selectedDinners) : selectedDinners[k].id = id
                 THEN \E k \in 1..Len(selectedDinners) :
                         /\ selectedDinners[k].id = id
                         /\ selectedDinners' =
                                SubSeq(selectedDinners, 1, k - 1)
                                    \o SubSeq(selectedDinners, k + 1, Len(selectedDinners))
                 ELSE selectedDinners' = selectedDinners
      ]_vars

\* removeDinner was called with an id that is not in a non-empty list
C9_Witness ==
    /\ lastCall[1] = "removeDinner"
    /\ lastCall[3] = <<>>
    /\ Len(selectedDinners) > 0

\* C10: setInstanceStyle(d, index, style) on a dinner with fewer than
\* index + 1 instances leaves exactly index + 1 of them, the new ones other
\* than the target empty placeholders, the old ones as they were.
C10_LazyGrow ==
    [][\A id \in StoreIds, i \in IndexArgs, s \in Styles \cup {NullStyle} :
          (lastCall'[1] = "setInstanceStyle" /\ lastCall'[2] = id /\ lastCall'[3] = i /\ lastCall'[4] = s
              /\ SetInstanceStyleCall(id, i, s)) =>
              \A k \in 1..Len(selectedDinners) :
                  (selectedDinners[k].id = id /\ Len(selectedDinners[k].instances) < i + 1) =>
                      /\ Len(selectedDinners'[k].instances) = i + 1
                      /\ \A j \in 1..i :
                            selectedDinners'[k].instances[j] =
                                IF j <= Len(selectedDinners[k].instances)
                                THEN selectedDinners[k].instances[j]
                                ELSE [style |-> "null", product |-> <<>>,
                                      menuCustomizations |-> <<>>]
                      /\ OthersUnchanged(selectedDinners, selectedDinners', k)
      ]_vars

\* a style was set one past the only instance of a dinner, which kept its style
C10_Witness ==
    /\ lastCall[1] = "setInstanceStyle"
    /\ lastCall[3] = 1
    /\ lastCall[5] = <<>>
    /\ \E k \in 1..Len(selectedDinners) :
          /\ selectedDinners[k].id = lastCall[2]
          /\ Len(selectedDinners[k].instances) = 2
          /\ selectedDinners[k].instances[1].style # "null"
          /\ selectedDinners[k].instances[1].product # <<>>

\* C11: setInstanceProduct(d, index, product) on an instance that exists sets
\* its product and nothing else; when d is not selected or has no instance at
\* that index the list of selected dinners is left as it was.
C11_SetInstanceProduct ==
    [][\A id \in StoreIds, i \in IndexArgs, p \in ProductArgs :
          (lastCall'[1] = "setInstanceProduct" /\ lastCall'[2] = id /\ lastCall'[3] = i
              /\ lastCall'[4] = p /\ SetInstanceProductCall(id, i, p)) =>
              IF \E k \in 1..Len(selectedDinners) :
                     selectedDinners[k].id = id /\ i + 1 <= Len(selectedDinners[k].instances)
              THEN /\ Len(selectedDinners') = Len(selectedDinners)
                   /\ \A k \in 1..Len(selectedDinners) :
                          IF selectedDinners[k].id # id
                          THEN selectedDinners'[k] = selectedDinners[k]
                          ELSE /\ selectedDinners'[k].quantity = selectedDinners[k].quantity
                               /\ Len(selectedDinners'[k].instances) =
                                      Len(selectedDinners[k].instances)
                               /\ \A j \in 1..Len(selectedDinners[k].instances) :
                                      selectedDinners'[k].instances[j] =
                                          IF j = i + 1
                                          THEN [selectedDinners[k].instances[j]
                                                   EXCEPT !.product = p]
                                          ELSE selectedDinners[k].instances[j]
              ELSE selectedDinners' = selectedDinners
      ]_vars

\* a product was handed to a selected dinner that has no instance at the index
C11_Witness ==
    /\ lastCall[1] = "setInstanceProduct"
    /\ lastCall[5] = <<>>
    /\ \E k \in 1..Len(selectedDinners) :
           /\ selectedDinners[k].id = lastCall[2]
           /\ Len(selectedDinners[k].instances) <= lastCall[3]

\* C12: after any sequence of setInstanceMenuCustomizations and
\* updateInstanceMenuItemQuantity calls, whatever quantities they are given,
\* every customization of every instance has currentQuantity >= 0.
C12_QuantitiesNonNegative ==
    \A k \in 1..Len(selectedDinners) :
        \A j \in 1..Len(selectedDinners[k].instances) :
            \A c \in 1..Len(selectedDinners[k].instances[j].menuCustomizations) :
                selectedDinners[k].instances[j].menuCustomizations[c].currentQuantity >= 0

\* the number of entries of the global list for one menu item
EntriesFor(items, menuItemId) ==
    Cardinality({k \in 1..Len(items) : items[k].menuItemId = menuItemId})

\* C13: after any sequence of addGlobalAdditionalMenuItem,
\* removeGlobalAdditionalMenuItem, updateGlobalAdditionalMenuItemQuantity and
\* setGlobalAdditionalMenuItems the global list has at most one entry per menu
\* item id.
C13_UniqueAddOns ==
    \A mi \in AddOnIds : EntriesFor(globalAdditionalMenuItems, mi) <= 1

\* C14: addGlobalAdditionalMenuItem(M) leaves the list as it was when it has an
\* entry for M (same number of entries for M, quantity neither reset nor
\* incremented) and appends one entry of quantity 1 when it has none.
C14_AddIsIdempotent ==
    [][\A mi \in AddOnIds :
          (lastCall'[1] = "addGlobalAdditionalMenuItem" /\ lastCall'[2] = mi
              /\ AddGlobalAdditionalMenuItemCall(mi)) =>
              IF EntriesFor(globalAdditionalMenuItems, mi) >= 1
              THEN /\ globalAdditionalMenuItems' = globalAdditionalMenuItems
                   /\ EntriesFor(globalAdditionalMenuItems', mi) =
                          EntriesFor(globalAdditionalMenuItems, mi)
              ELSE /\ Len(globalAdditionalMenuItems') = Len(globalAdditionalMenuItems) + 1
                   /\ SubSeq(globalAdditionalMenuItems', 1, Len(globalAdditionalMenuItems))
                          = globalAdditionalMenuItems
                   /\ globalAdditionalMenuItems'[Len(globalAdditionalMenuItems')] =
                          [menuItemId |-> mi, quantity |-> 1]
                   /\ EntriesFor(globalAdditionalMenuItems', mi) = 1
      ]_vars

\* M was added a second time while its one entry had a quantity above 1
C14_Witness ==
    /\ lastCall[1] = "addGlobalAdditionalMenuItem"
    /\ EntriesFor(lastCall[3], lastCall[2]) = 1
    /\ \E k \in 1..Len(lastCall[3]) :
           lastCall[3][k].menuItemId = lastCall[2] /\ lastCall[3][k].quantity > 1
    /\ EntriesFor(globalAdditionalMenuItems, lastCall[2]) = 1

C16_ResetYieldsInitial ==
    [][(lastCall'[1] = "resetOrder" /\ ResetOrderCall) =>
          /\ currentStep' = "intro"
          /\ selectedAddress' = ""
          /\ selectedDinners' = <<>>
          /\ globalAdditionalMenuItems' = <<>>
          /\ globalMemo' = ""
      ]_vars

\* resetOrder was called with every one of the five fields changed
C16_Witness ==
    /\ lastCall[1] = "resetOrder"
    /\ lastCall[2] = "checkout"
    /\ lastCall[3] # ""
    /\ lastCall[4] > 0
    /\ lastCall[5] > 0
    /\ lastCall[6] # ""
    /\ currentStep = "intro"
    /\ globalMemo = ""

\* the distance between two steps along STEP_ORDER
StepDistance(a, b) ==
    IF StepIndex(a) >= StepIndex(b) THEN StepIndex(a) - StepIndex(b)
    ELSE StepIndex(b) - StepIndex(a)

\* nextStep and prevStep move one position, and stay at the two ends
OneStepMoves ==
    /\ (lastCall'[1] = "nextStep" /\ NextStepCall) =>
           StepIndex(currentStep') =
               IF currentStep = "checkout" THEN StepIndex(currentStep)
               ELSE StepIndex(currentStep) + 1
    /\ (lastCall'[1] = "prevStep" /\ PrevStepCall) =>
           StepIndex(currentStep') =
               IF currentStep = "intro" THEN StepIndex(currentStep)
               ELSE StepIndex(currentStep) - 1

\* C17: nextStep and prevStep move currentStep one position forward or back
\* along [intro, address, dinner, style, customize, checkout] and leave it as
\* it is at checkout and at intro; only setStep changes the step by more than
\* one position.
C17_OnlySetStepJumps ==
    [][/\ OneStepMoves
       /\ StepDistance(currentStep, currentStep') > 1 => lastCall'[1] = "setStep"
      ]_vars

\* C17, amended: nextStep and prevStep move one position and stay at the two
\* ends; the step changes by more than one position only through setStep and
\* through resetOrder, which returns to intro from any step.
C17_OnlySetStepOrResetJumps ==
    [][/\ OneStepMoves
       /\ StepDistance(currentStep, currentStep') > 1 =>
              \/ lastCall'[1] = "setStep"
              \/ lastCall'[1] = "resetOrder" /\ currentStep' = "intro"
      ]_vars

\* nextStep was called at checkout and the step is still checkout
C17_Witness ==
    /\ lastCall[1] = "nextStep"
    /\ lastCall[2] = "checkout"
    /\ currentStep = "checkout"

\* base price + style extra price + (currentQuantity - defaultQuantity) x unit
\* price over the customizations of instance j of an entry
LocalPrice(item, j) ==
    basePrice[item.dinner] + extraPrice[item.instances[j].style]
        + SumSeq([c \in 1..Len(item.instances[j].menuCustomizations) |->
                     unitPrice[item.instances[j].menuCustomizations[c].menuItemId] *
                         (item.instances[j].menuCustomizations[c].currentQuantity -
                              item.instances[j].menuCustomizations[c].defaultQuantity)])

\* unitPrice x quantity over the global additional menu items
AdditionalPrice(items) ==
    SumSeq([a \in 1..Len(items) |-> unitPrice[items[a].menuItemId] * items[a].quantity])

\* the totalPrice of the products of the materialized instances
MaterializedPrice(sd) ==
    SumSeq([k \in 1..Len(sd) |->
               SumSeq([j \in 1..Len(sd[k].instances) |->
                          IF sd[k].instances[j].product = NullProduct THEN 0
                          ELSE ProductTotalPrice(sd[k].instances[j].product)])])

\* the local prices of the instances that satisfy Counts
LocalTotal(sd, Counts(_)) ==
    SumSeq([k \in 1..Len(sd) |->
               SumSeq([j \in 1..Len(sd[k].instances) |->
                          IF Counts(sd[k].instances[j]) THEN LocalPrice(sd[k], j) ELSE 0])])

\* C18: the total getTotalPrice returns is the sum of the prices of the
\* materialized instances plus unitPrice x quantity for every global
\* additional menu item (6000 for no dinner and one item of unit price 3000
\* and quantity 2, 0 for an empty order).
C18_TotalIncludesAdditional ==
    lastCall[1] = "getTotalPrice" =>
        lastCall[2] = MaterializedPrice(selectedDinners)
                          + AdditionalPrice(globalAdditionalMenuItems)

\* C18, amended: getTotalPrice returns the sum of product.totalPrice over the
\* materialized instances and leaves the global additional menu items out
\* (0 for no dinner and one item of unit price 3000 and quantity 2); the
\* total that adds unitPrice x quantity for them (6000 there) is the one
\* CheckoutStep.calculateTotalPrice computes once the menu items are loaded;
\* an empty order totals 0 in both.
C18_TotalOfProducts ==
    /\ lastCall[1] = "getTotalPrice" =>
           /\ lastCall[2] = MaterializedPrice(selectedDinners)
           /\ selectedDinners = <<>> => lastCall[2] = 0
    /\ (lastCall[1] = "calculateTotalPrice" /\ lastCall[2] = "CheckoutStep" /\ lastCall[3]) =>
           /\ lastCall[4] =
                  LocalTotal(selectedDinners,
                             LAMBDA instance : /\ instance.style # NullStyle
                                               /\ instance.product # NullProduct)
                      + AdditionalPrice(globalAdditionalMenuItems)
           /\ (selectedDinners = <<>> /\ globalAdditionalMenuItems = <<>>) => lastCall[4] = 0
           /\ (/\ selectedDinners = <<>>
               /\ globalAdditionalMenuItems = <<[menuItemId |-> "wine", quantity |-> 2]>>) =>
                  lastCall[4] = 6000

\* getTotalPrice was asked with a materialized instance and an additional item
\* of quantity 2 in the order
C18_Witness ==
    /\ lastCall[1] = "getTotalPrice"
    /\ lastCall[2] > 0
    /\ \E a \in 1..Len(globalAdditionalMenuItems) : globalAdditionalMenuItems[a].quantity = 2

C20_StyledInstanceCounts ==
    (lastCall[1] = "calculateTotalPrice" /\ lastCall[3]) =>
        lastCall[4] =
            LocalTotal(selectedDinners, LAMBDA instance : instance.style # NullStyle)
                + AdditionalPrice(globalAdditionalMenuItems)

(***************************************************************************)
(* Properties of the guided flow                                           *)
(***************************************************************************)
\* C1: every selected dinner has at most as many instances as its quantity.
C1_InstancesWithinQuantity ==
    \A k \in 1..Len(selectedDinners) :
        Len(selectedDinners[k].instances) <= selectedDinners[k].quantity

\* a createProduct request of StyleStep is in flight for instance index of item id
InFlight(id, index) ==
    \E r \in BagToSet(pending) : r.dinnerItemId = id /\ r.instanceIndex = index

\* C3: once the failure of the createProduct request for instance (d, i) has
\* been handled, that instance has no style and no product; and an instance
\* with a style and no product always has its createProduct request in flight.
C3_FailureClearsStyle ==
    /\ lastCall[1] = "StyleStep.createProduct.catch" =>
           \A k \in 1..Len(selectedDinners) :
               selectedDinners[k].id = lastCall[2] =>
                   /\ selectedDinners[k].instances[lastCall[3] + 1].style = "null"
                   /\ selectedDinners[k].instances[lastCall[3] + 1].product = <<>>
    /\ \A k \in 1..Len(selectedDinners) :
           \A j \in 1..Len(selectedDinners[k].instances) :
               (/\ selectedDinners[k].instances[j].style # "null"
                /\ selectedDinners[k].instances[j].product = <<>>)
                   => InFlight(selectedDinners[k].id, j - 1)

\* a failure was handled for an instance of a dinner that is still selected,
\* while another instance of it keeps its style and product
C3_Witness ==
    /\ lastCall[1] = "StyleStep.createProduct.catch"
    /\ \E k \in 1..Len(selectedDinners) :
          /\ selectedDinners[k].id = lastCall[2]
          /\ selectedDinners[k].quantity >= lastCall[3] + 1
          /\ selectedDinners[k].instances[lastCall[3] + 1].style = "null"
          /\ \E j \in 1..Len(selectedDinners[k].instances) :
                /\ selectedDinners[k].instances[j].style # "null"
                /\ selectedDinners[k].instances[j].product # <<>>

\* an order every unit of which is styled and materialized
Complete(sd) ==
    \A k \in 1..Len(sd) :
        /\ Len(sd[k].instances) = sd[k].quantity
        /\ \A j \in 1..Len(sd[k].instances) :
               /\ sd[k].instances[j].style # NullStyle
               /\ sd[k].instances[j].product # NullProduct

C21_Sequential ==
    [][/\ (checkout'.pc = "createAdditionalMenuProduct" /\ checkout' # checkout) =>
              \/ /\ checkout.pc = "idle"
                 /\ lastCall'[1] = "CheckoutStep.handleCheckout"
                 /\ checkout'.additionalMenuProductIds = <<>>
                 /\ checkout'.request.menuItemId = globalAdditionalMenuItems[1].menuItemId
              \/ /\ checkout.pc = "createAdditionalMenuProduct"
                 /\ lastCall'[1] = "CheckoutStep.createAdditionalMenuProduct.then"
                 /\ checkout'.additionalMenuProductIds =
                        Append(checkout.additionalMenuProductIds,
                               AdditionalProductFor(checkout.request))
                 /\ checkout'.request.menuItemId =
                        globalAdditionalMenuItems[
                            Len(checkout'.additionalMenuProductIds) + 1].menuItemId
       /\ (checkout'.pc = "createCart" /\ checkout.pc # "createCart") =>
              /\ Len(checkout'.additionalMenuProductIds) = Len(globalAdditionalMenuItems)
              /\ \/ /\ checkout.pc = "idle"
                    /\ lastCall'[1] = "CheckoutStep.handleCheckout"
                    /\ globalAdditionalMenuItems = <<>>
                 \/ /\ checkout.pc = "createAdditionalMenuProduct"
                    /\ lastCall'[1] = "CheckoutStep.createAdditionalMenuProduct.then"
       /\ (checkout'.pc = "checkout" /\ checkout.pc # "checkout") =>
              /\ checkout.pc = "createCart"
              /\ lastCall'[1] = "CheckoutStep.createCart.then"
      ]_vars

\* the checkout call is in flight after two add-on products and the cart were made
C21_Witness ==
    /\ checkout.pc = "checkout"
    /\ Len(checkout.additionalMenuProductIds) = 2

\* the order composition of the store
Composition ==
    <<currentStep, selectedAddress, selectedDinners, globalAdditionalMenuItems, globalMemo>>

\* C22: when the creation of an add-on product fails during checkout, the
\* checkout is aborted: no further add-on request, no createCart and no
\* checkout call is sent, no request is sent for the add-on products already
\* created, and step, address, dinners, add-ons and memo stay as they were.
C22_AddOnFailureAborts ==
    [][(lastCall'[1] = "CheckoutStep.createAdditionalMenuProduct.catch") =>
          /\ checkout'.pc = "idle"
          /\ checkout'.request = <<>>
          /\ ~ isProcessing'
          /\ lastCall'[2] = checkout.additionalMenuProductIds
          /\ Composition' = Composition
      ]_vars

\* the second add-on failed after the product of the first had been created
C22_Witness ==
    /\ lastCall[1] = "CheckoutStep.createAdditionalMenuProduct.catch"
    /\ Len(lastCall[2]) = 1
    /\ Len(globalAdditionalMenuItems) = 2
    /\ currentStep = "checkout"
    /\ checkout.pc = "idle"

\* the products of all instances, dinner by dinner
RECURSIVE InstanceProducts(_)
InstanceProducts(sd) ==
    IF Len(sd) = 0 THEN <<>>
    ELSE [j \in 1..Len(sd[1].instances) |-> sd[1].instances[j].product]
             \o InstanceProducts(SubSeq(sd, 2, Len(sd)))

\* C23: the items sent to createCart are one entry of quantity 1 for the
\* product of every dinner instance, then one entry for the product made of
\* every global additional menu item, and nothing else: as many entries as
\* there are instances and add-ons.
C23_CartItems ==
    checkout.pc = "createCart" =>
        LET items == checkout.request.items
            products == InstanceProducts(selectedDinners)
            n == Len(products)
        IN  /\ Len(items) = n + Len(globalAdditionalMenuItems)
            /\ \A j \in 1..Len(items) : items[j].quantity = 1
            /\ \A j \in 1..n :
                   items[j].productId = products[j] /\ products[j] # NullProduct
            /\ \A a \in 1..Len(globalAdditionalMenuItems) :
                   items[n + a].productId =
                       <<"additional", globalAdditionalMenuItems[a].menuItemId,
                         globalAdditionalMenuItems[a].quantity>>

\* createCart is in flight for an order of two instances and two add-ons
C23_Witness ==
    /\ checkout.pc = "createCart"
    /\ Len(InstanceProducts(selectedDinners)) = 2
    /\ Len(globalAdditionalMenuItems) = 2
    /\ Len(checkout.request.items) = 4

\* the order composition as resetOrder leaves it
InitialComposition == <<"intro", "", <<>>, <<>>, "">>

\* C24: checkout resets the order composition exactly when the checkout call
\* succeeded: its success applies resetOrder and leaves the flow page; a failure
\* of createCart or of the checkout call leaves step, address, dinners, add-ons
\* and memo as they were, a 401 logging the user out and leaving for /login and
\* any other failure doing neither.
C24_ResetIffCheckoutSucceeded ==
    [][/\ (lastCall'[1] = "CheckoutStep.checkout.then") =>
             /\ Composition' = InitialComposition
             /\ location' # OrderPage
       /\ (lastCall'[1] = "CheckoutStep.handleCheckout.catch") =>
             /\ Composition' = Composition
             /\ (lastCall'[2] = 401) =>
                   (~ isAuthenticated' /\ location' = LoginPage)
             /\ (lastCall'[2] # 401) =>
                   (isAuthenticated' = isAuthenticated /\ location' = location)
      ]_vars

(***************************************************************************)
(* Properties of the conversational adapter.                               *)
(***************************************************************************)
\* a dialogue turn has been answered
TurnAnswered(name) ==
    name \in {"AIChatDrawer.sendChatMessage.then", "AIChatDrawer.handleQuantityChange.then"}

\* C25: after every answered dialogue turn, of sendChatMessage or of
\* handleQuantityChange, the local order is the currentOrder of the response
\* and the local total is its totalPrice.
C25_AdoptsSnapshot ==
    [][TurnAnswered(lastCall'[1]) =>
          /\ (lastCall'[3] # <<>>) => currentOrder' = lastCall'[3][1]
          /\ (lastCall'[4] # <<>>) => chatTotalPrice' = lastCall'[4][1]
      ]_vars

\* C26: a response with SHOW_CANCEL_CONFIRM leaves the local order empty and
\* the local total 0; a response with a directive other than ORDER_COMPLETED
\* and SHOW_CANCEL_CONFIRM leaves the order and the total of the response, or
\* the ones held before when the response carries none.
C26_CancelConfirmClears ==
    [][TurnAnswered(lastCall'[1]) =>
          /\ (lastCall'[2] = "SHOW_CANCEL_CONFIRM") =>
                (currentOrder' = <<>> /\ chatTotalPrice' = 0)
          /\ (lastCall'[2] \notin {"SHOW_CANCEL_CONFIRM", "ORDER_COMPLETED"}) =>
                /\ currentOrder' = IF lastCall'[3] # <<>> THEN lastCall'[3][1]
                                   ELSE currentOrder
                /\ chatTotalPrice' = IF lastCall'[4] # <<>> THEN lastCall'[4][1]
                                     ELSE chatTotalPrice
      ]_vars

\* C27: a response of sendChatMessage with ORDER_COMPLETED leaves the local
\* state reset (no order, total 0, no address, no flow state) and the
\* navigation to the order history under way, with an order number or none.
C27_OrderCompletedResets ==
    [][(lastCall'[1] = "AIChatDrawer.sendChatMessage.then"
           /\ lastCall'[2] = "ORDER_COMPLETED") =>
          /\ currentOrder' = <<>>
          /\ chatTotalPrice' = 0
          /\ chatAddress' = NullAddress
          /\ nextState' = Undefined
          /\ orderTimer' \/ location' = OrdersPage
      ]_vars

\* C28: a failed dialogue turn appends an assistant message to the messages
\* and leaves the local order as it was; after a 401 the login page is shown.
C28_FailureAppendsMessage ==
    [][(lastCall'[1] = "AIChatDrawer.catch" /\ lastCall'[2] = "chat") =>
          /\ messages' = Append(messages, "assistant")
          /\ currentOrder' = currentOrder
          /\ (lastCall'[3] = 401) => location' = LoginPage
      ]_vars

\* C29: while the drawer is closed no stream of the microphone is live.
C29_ClosedDrawerReleasesCapture ==
    ~ isAIChatOpen => capture = "none"

(***************************************************************************)
(* Properties of the concurrent createProduct requests.                    *)
(***************************************************************************)
\* a createProduct request has completed
Completed(name) ==
    name \in {"StyleStep.createProduct.then", "StyleStep.createProduct.catch"}

\* C30: the completion of the createProduct request of (dinnerItemId,
\* instanceIndex), success or failure, leaves every other instance of every
\* dinner as it was: its style, its product and its customizations.
C30_OwnSlotOnly ==
    [][Completed(lastCall'[1]) =>
          /\ Len(selectedDinners') = Len(selectedDinners)
          /\ \A k \in 1..Len(selectedDinners) :
                /\ selectedDinners'[k].id = selectedDinners[k].id
                /\ Len(selectedDinners'[k].instances) >= Len(selectedDinners[k].instances)
                /\ \A j \in 1..Len(selectedDinners[k].instances) :
                      (selectedDinners[k].id # lastCall'[2] \/ j # lastCall'[3] + 1) =>
                          selectedDinners'[k].instances[j] = selectedDinners[k].instances[j]
      ]_vars

\* a request has completed while another one is in flight and the instance of
\* that one holds its style
C30_Witness ==
    /\ Completed(lastCall[1])
    /\ \E r \in BagToSet(pending), k \in 1..Len(selectedDinners) :
          /\ selectedDinners[k].id = r.dinnerItemId
          /\ <<r.dinnerItemId, r.instanceIndex>> # <<lastCall[2], lastCall[3]>>
          /\ r.instanceIndex + 1 <= Len(selectedDinners[k].instances)
          /\ selectedDinners[k].instances[r.instanceIndex + 1].style = r.servingStyleId

(***************************************************************************)
(* Properties of the two checkout paths                                    *)
(***************************************************************************)
\* the order a createCart request was built for, dinner by dinner: the dinner,
\* the styles of its units and its quantity
GuidedOrder(sd) ==
    [k \in 1..Len(sd) |->
        <<sd[k].dinner,
          {sd[k].instances[j].style : j \in 1..Len(sd[k].instances)},
          sd[k].quantity>>]

ChatOrder(items) ==
    [k \in 1..Len(items) |->
        <<items[k].dinnerId, {items[k].servingStyleId}, items[k].quantity>>]

\* a memo that is left out and an empty memo both mean no memo
NoMemo(memo) == IF memo = Undefined THEN "" ELSE memo

\* C5: when handleCheckout and handleConfirmOrder each have their createCart
\* request in flight for the same order (same dinners, styles, quantities and
\* address, no add-on, no memo), the two requests carry the same item lines,
\* delivery address, delivery method and memo.
C5_SamePayload ==
    ( /\ checkout.pc = "createCart"
      /\ chatCall.op = "createCart"
      /\ checkout.additionalMenuProductIds = <<>>
      /\ NoMemo(checkout.request.memo) = ""
      /\ GuidedOrder(checkout.selectedDinners) = ChatOrder(chatCall.items)
      /\ checkout.request.deliveryAddress = chatCall.request.deliveryAddress )
    => /\ checkout.request.items = chatCall.request.items
       /\ checkout.request.deliveryMethod = chatCall.request.deliveryMethod
       /\ NoMemo(checkout.request.memo) = NoMemo(chatCall.request.memo)

(***************************************************************************)
(* Properties of the validation of the steps.                              *)
(***************************************************************************)
\* every dinner has as many instances as its quantity, each with a style and a
\* product
EveryInstanceReady(sd) ==
    \A k \in 1..Len(sd) :
        /\ Len(sd[k].instances) = sd[k].quantity
        /\ \A j \in 1..Len(sd[k].instances) :
               sd[k].instances[j].style # NullStyle /\ sd[k].instances[j].product # NullProduct

\* the step, the store and the requests in flight stay as they are
NothingAdvances ==
    /\ currentStep' = currentStep
    /\ Composition' = Composition
    /\ pending' = pending
    /\ checkout' = checkout
    /\ chatCall' = chatCall

\* C31: a handleNext whose validation fails leaves the step and sends nothing:
\* AddressStep with a blank address, DinnerStep with no dinner or a quantity
\* below 1, StyleStep unless every dinner has quantity instances, each with a
\* style and a product, and the address is not empty.
C31_ValidationBlocks ==
    [][/\ (lastCall'[1] = "AddressStep.handleNext" /\ lastCall'[2] \in BlankInputs) =>
             (currentStep = "address" /\ NothingAdvances)
       /\ (lastCall'[1] = "DinnerStep.handleNext"
              /\ (Len(selectedDinners) = 0
                     \/ \E k \in 1..Len(selectedDinners) : selectedDinners[k].quantity < 1)) =>
             (currentStep = "dinner" /\ NothingAdvances)
       /\ (lastCall'[1] = "StyleStep.handleNext"
              /\ ~ (EveryInstanceReady(selectedDinners) /\ selectedAddress # "")) =>
             (currentStep = "style" /\ NothingAdvances)
      ]_vars

\* StyleStep.handleNext was called with a style chosen and its product not yet
\* there, and the step is still the style step
C31_Witness ==
    /\ lastCall[1] = "StyleStep.handleNext"
    /\ currentStep = "style"
    /\ ~ EveryInstanceReady(selectedDinners)
    /\ \E k \in 1..Len(selectedDinners) : \E j \in 1..Len(selectedDinners[k].instances) :
          selectedDinners[k].instances[j].style # NullStyle

(***************************************************************************)
(* Properties of the customizations at checkout.                           *)
(***************************************************************************)
\* the customizations of the order that differ from their default quantity,
\* as <<product, menuItemId, quantity>>
ChangedCustomizations(sd) ==
    UNION {UNION {{<<sd[k].instances[j].product, sd[k].instances[j].menuCustomizations[c].menuItemId,
                     sd[k].instances[j].menuCustomizations[c].currentQuantity>> :
                      c \in {x \in 1..Len(sd[k].instances[j].menuCustomizations) :
                                sd[k].instances[j].menuCustomizations[x].currentQuantity
                                  # sd[k].instances[j].menuCustomizations[x].defaultQuantity}} :
                  j \in 1..Len(sd[k].instances)} :
           k \in 1..Len(sd)}

\* C32: when handleCheckout sends createCart, it has sent to the backend every
\* customization of an instance whose currentQuantity differs from its
\* defaultQuantity.
C32_CustomizationsSentBeforeCart ==
    checkout.pc = "createCart" =>
        ChangedCustomizations(checkout.selectedDinners) \subseteq CustomizationRequests(checkout)

(***************************************************************************)
(* Properties of the eligibility of the serving styles.                    *)
(***************************************************************************)
\* the styles a champagne dinner may be served in
ChampagneStyles == {"grand", "deluxe"}

\* C33: an instance of a champagne dinner holds no style other than grand or
\* deluxe, and no createProduct request is in flight for a champagne dinner
\* with another style.
C33_ChampagneStyles ==
    /\ \A k \in 1..Len(selectedDinners) :
          selectedDinners[k].dinner = "champagne" =>
              \A j \in 1..Len(selectedDinners[k].instances) :
                  selectedDinners[k].instances[j].style \in ChampagneStyles \cup {NullStyle}
    /\ \A r \in BagToSet(pending) :
          r.dinnerId = "champagne" => r.servingStyleId \in ChampagneStyles

\* a champagne dinner served grand next to another dinner served simple
C33_Witness ==
    /\ \E k \in 1..Len(selectedDinners) :
          /\ selectedDinners[k].dinner = "champagne"
          /\ \E j \in 1..Len(selectedDinners[k].instances) :
                /\ selectedDinners[k].instances[j].style = "grand"
                /\ selectedDinners[k].instances[j].product # NullProduct
    /\ \E k \in 1..Len(selectedDinners) :
          /\ selectedDinners[k].dinner # "champagne"
          /\ \E j \in 1..Len(selectedDinners[k].instances) :
                selectedDinners[k].instances[j].style = "simple"

(***************************************************************************)
(* Properties of the product and the style of an instance.                 *)
(***************************************************************************)
\* C34: an instance that holds a product holds the product that was created
\* for its current style.
C34_ProductOfCurrentStyle ==
    \A k \in 1..Len(selectedDinners) :
        \A j \in 1..Len(selectedDinners[k].instances) :
            selectedDinners[k].instances[j].product # NullProduct =>
                selectedDinners[k].instances[j].product =
                    ProductFor(selectedDinners[k].dinner,
                               selectedDinners[k].instances[j].style, 1)

(***************************************************************************)
(* Properties of the closed drawer.                                        *)
(***************************************************************************)
\* the conversational state of the drawer as handleClose leaves it
Cleared ==
    /\ messages = <<>>
    /\ currentOrder = <<>>
    /\ chatTotalPrice = 0
    /\ chatAddress = NullAddress

\* C35: once handleClose has closed the drawer and cleared its conversational
\* state, the state stays cleared as long as the drawer stays closed.
C35_ClosedStaysCleared ==
    [][(~ isAIChatOpen /\ Cleared /\ ~ isAIChatOpen') => Cleared']_vars

(***************************************************************************)
(* Properties of the quantities of DinnerStep.                             *)
(***************************************************************************)
\* the quantity the store holds for a dinner of the catalog, 0 when it is not
\* selected
StoredQuantity(dinnerId) ==
    LET k == FindIndex(selectedDinners, LAMBDA item : item.dinner = dinnerId)
    IN  IF k = 0 THEN 0 ELSE selectedDinners[k].quantity

\* C36: while DinnerStep is shown, the quantity it shows for each dinner is the
\* quantity of that dinner in the store.
C36_QuantitiesMirrorStore ==
    (location = OrderPage /\ currentStep = "dinner" /\ ~ crashed) =>
        \A d \in Dinners : quantities[d] = StoredQuantity(d)

(***************************************************************************)
(* Properties of the identity of the selected dinners.                     *)
(***************************************************************************)
\* no two items of the list are of the same catalog dinner
OnePerDinner(sd) ==
    \A k1, k2 \in 1..Len(sd) : sd[k1].dinner = sd[k2].dinner => k1 = k2

\* C37: selectedDinners holds at most one item per catalog dinner, and an item
\* that stays in the list keeps its id.
C37_OneItemPerDinner ==
    /\ [] OnePerDinner(selectedDinners)
    /\ [][\A k \in 1..Len(selectedDinners) : \A n \in 1..Len(selectedDinners') :
              selectedDinners'[n].dinner = selectedDinners[k].dinner =>
                  selectedDinners'[n].id = selectedDinners[k].id]_vars

\* addDinner has been called for a dinner that was already selected, next to
\* another selected dinner
C37_Witness ==
    /\ Len(lastCall) = 4
    /\ lastCall[1] = "addDinner"
    /\ lastCall[4] # <<>>
    /\ Len(selectedDinners) = 2

(***************************************************************************)
(* Properties of isProcessing.                                             *)
(***************************************************************************)
\* C38: when no handleCheckout is running isProcessing is false, handleCheckout
\* starts only while isProcessing is false and no other handleCheckout is
\* running, and, its remote calls being answered, isProcessing becomes false
\* again.
C38_ProcessingEnds ==
    /\ [](checkout.pc = "idle" => ~ isProcessing)
    /\ [][lastCall'[1] = "CheckoutStep.handleCheckout" =>
              (~ isProcessing /\ checkout.pc = "idle")]_vars
    /\ (isProcessing ~> ~ isProcessing)

\* a 403 of createCart or of the checkout call has been handled, CheckoutStep
\* still shown
C38_Witness ==
    /\ lastCall = <<"CheckoutStep.handleCheckout.catch", 403>>
    /\ location = OrderPage
    /\ currentStep = "checkout"
    /\ ~ isProcessing

====
